---- MODULE Spec2Model ----
(***************************************************************************)
(* Model of the DIContainer class of src/src/di-container.ts: the          *)
(* registration table (_services), the resolution stack                    *)
(* (_resolutionStack), and resolve / resolveAsync as call frames that run   *)
(* the registered factories, which may themselves call the container.      *)
(*                                                                         *)
(* JavaScript runs one synchronous call chain at a time: `cur` is the chain *)
(* that is running (empty when the event loop is idle) and `suspended` the  *)
(* call trees parked at an `await`.  The caller's operations are issued     *)
(* only when no chain is running.                                          *)
(***************************************************************************)
EXTENDS Integers, Sequences, FiniteSets, TLC

VARIABLES
    services,         \* _services: the Map, as the sequence of its entries in insertion order
    resolutionStack,  \* _resolutionStack: Set of keys
    cur,              \* the synchronously running chain of resolve/resolveAsync frames
    suspended,        \* the call trees suspended at an await
    done,             \* observation: the call that completed in the last step (NoEvent otherwise)
    prevRet,          \* observation: per key, the last top-level call that returned a value
    budget,           \* number of operations the caller may still issue
    performanceTracking,  \* _performanceTracking: the option the container was built with
    serviceMetrics,   \* _serviceMetrics: per key, totalResolutions (0: no record)
    teardowns,        \* observation: the instances whose dispose() was invoked, in order
    firstRun,         \* comparison of two containers: the states the first one went through
    replay            \* comparison of two containers: 0, or the position of the second in firstRun

vars == <<services, resolutionStack, cur, suspended, done, prevRet, budget,
          performanceTracking, serviceMetrics, teardowns, firstRun, replay>>

----------------------------------------------------------------------------
(* Bounds of the model *)

\* operations the caller issues in a run of Spec, and in a run of SpecChain
MaxOps == 3
MaxChainOps == 4
\* operations the caller issues in a run of SpecDispose
MaxDisposeOps == 4
\* operations the caller issues in a run of SpecTokens
MaxTokenOps == 3
\* operations the caller issues in a run of SpecMixed
MaxMixedOps == 3
\* operations, other than has(), the caller issues in a run of SpecQuery
MaxQueryOps == 4
\* operations the caller issues on each of the two containers in a run of SpecTwin
MaxTwinOps == 3
\* operations the caller issues in a run of SpecStats
MaxStatsOps == 4
\* operations the caller issues in a run of SpecCount
MaxCountOps == 4
\* resolve calls the caller issues in a run of SpecTerm
MaxTermCalls == 2

----------------------------------------------------------------------------
(* Values, keys, tokens *)

\* a value: its typeof, its identity, and what its dispose method does
\* ("none": it has no dispose method; "ok": dispose() returns a promise that
\* resolves; "reject": a promise that rejects; "throw": dispose() throws)
Undefined == [t |-> "undefined", id |-> 0, teardown |-> "none"]
Zero      == [t |-> "number", id |-> 0, teardown |-> "none"]
Obj(n)    == [t |-> "object", id |-> n, teardown |-> "none"]
Disposable(n, type, teardown) == [t |-> type, id |-> n, teardown |-> teardown]

StrKey(s) == [sym |-> FALSE, name |-> s]
SymKey(s) == [sym |-> TRUE, name |-> s]
NoKey     == StrKey("")

StrTok(s)      == [kind |-> "string", name |-> s, text |-> ""]
SymTok(s)      == [kind |-> "symbol", name |-> s, text |-> ""]
ClassTok(s, n) == [kind |-> "class", name |-> s, text |-> n]
NoTok          == StrTok("")

KeyA == StrKey("A")
KeyB == StrKey("B")
KeyC == StrKey("C")
Keys == {KeyA, KeyB, KeyC}

\* the tokens the caller uses in a run of Spec, and in a run of SpecChain
Tokens == {StrTok("A"), ClassTok("B", "class B {}")}
ChainTokens == {StrTok("A"), ClassTok("B", "class B {}"), StrTok("C")}

\* tokens of every kind: a string, a symbol with the same description, two
\* different classes named B, the string "B", and a class without a name
KeyTokens == {StrTok("A"), SymTok("A"), ClassTok("B", "class B {}"),
              ClassTok("B", "class B extends Base {}"), StrTok("B"),
              ClassTok("", "class {}")}

\* _getTokenKey: strings and symbols are their own key, a class is its name
\* (its source text when the name is empty).
MutTokenKeyClassText(token) ==
    IF token.kind = "symbol" THEN SymKey(token.name)
    ELSE IF token.kind = "string" THEN StrKey(token.name)
    ELSE StrKey(token.text)

getTokenKey(token) ==
    IF token.kind = "symbol" THEN SymKey(token.name)
    ELSE IF token.kind = "string" THEN StrKey(token.name)
    ELSE IF token.name # "" THEN StrKey(token.name) ELSE StrKey(token.text)

----------------------------------------------------------------------------
(* Factories: the build functions the caller registers.  A factory is a    *)
(* short program: an optional container call made first (pre), an optional  *)
(* nested resolve of a dependency (dep), and what it returns or throws.     *)
(* An async factory returns a promise of its result; via is the method its  *)
(* nested resolve calls.                                                    *)

Factory(async, pre, dep, result) ==
    [async |-> async, pre |-> pre, dep |-> dep, result |-> result, via |-> "resolve"]

\* async () => ({dep: await container.resolveAsync(dep)})
Awaiting(fdef) == [fdef EXCEPT !.via = "resolveAsync"]

FactoryDef(f) ==
    CASE f = "obj"        -> Factory(FALSE, "none", NoKey, "object")
      [] f = "undef"      -> Factory(FALSE, "none", NoKey, "undefined")
      [] f = "zero"       -> Factory(FALSE, "none", NoKey, "number")
      [] f = "throw"      -> Factory(FALSE, "none", NoKey, "throw")
      [] f = "depA"       -> Factory(FALSE, "none", KeyA, "object")
      [] f = "depB"       -> Factory(FALSE, "none", KeyB, "object")
      [] f = "depC"       -> Factory(FALSE, "none", KeyC, "object")
      \* () => { container.resolve('B'); throw new Error('factory failed') }
      [] f = "depBThenThrow" -> Factory(FALSE, "none", KeyB, "throw")
      [] f = "clearDepA"  -> Factory(FALSE, "clear", KeyA, "object")
      \* () => { container.registerInstance('A', {}); return {a: container.resolve('A')} }
      [] f = "instDepA"   -> Factory(FALSE, "registerInstance", KeyA, "object")
      [] f = "asyncObj"   -> Factory(TRUE, "none", NoKey, "object")
      [] f = "asyncUndef" -> Factory(TRUE, "none", NoKey, "undefined")
      \* async () => { throw new Error('factory failed') }
      [] f = "asyncThrow" -> Factory(TRUE, "none", NoKey, "throw")
      [] f = "const"      -> Factory(FALSE, "none", NoKey, "instance")
      \* let n = 0; () => (n++ === 0 ? undefined : {})
      [] f = "undefThenObj" -> Factory(FALSE, "none", NoKey, "counted")
      \* () => new DisposableService(), with dispose() as named
      [] f = "disposable" -> Factory(FALSE, "none", NoKey, "ok")
      [] f = "faulty"     -> Factory(FALSE, "none", NoKey, "reject")
      [] f = "faultySync" -> Factory(FALSE, "none", NoKey, "throw-on-dispose")
      \* () => Object.assign(() => {}, {dispose: async () => {}})
      [] f = "callable"   -> Factory(FALSE, "none", NoKey, "function")
      \* async () => ({dep: container.resolve(dep)})
      [] f = "asyncDepA"  -> Factory(TRUE, "none", KeyA, "object")
      [] f = "asyncDepB"  -> Factory(TRUE, "none", KeyB, "object")
      [] f = "awaitDepA"  -> Awaiting(Factory(TRUE, "none", KeyA, "object"))
      [] f = "awaitDepB"  -> Awaiting(Factory(TRUE, "none", KeyB, "object"))

\* the factories the caller registers in a run of Spec, and in a run of SpecChain
Factories == {"obj", "undef", "zero", "throw", "depA", "depB", "clearDepA",
              "asyncObj", "asyncUndef", "undefThenObj"}
ChainFactories == {"obj", "depA", "depB", "depC"}
\* and in a run of SpecMixed: synchronous and asynchronous factories that resolve
\* one another through resolve and through resolveAsync
MixedFactories == {"obj", "undef", "depA", "depB", "asyncDepA", "asyncDepB",
                   "awaitDepA", "awaitDepB", "clearDepA", "instDepA", "throw",
                   "asyncThrow", "depBThenThrow"}

----------------------------------------------------------------------------
(* The registration table.  A Map keeps insertion order and set() on an    *)
(* existing key replaces the value in place.  rid is the identity of the   *)
(* ServiceRegistration object stored under the key: resolve keeps a         *)
(* reference to the object it looked up and later writes its `instance`.   *)
(* captured is the value the factory of registerInstance closes over, n    *)
(* the counter a counting factory closes over, and scope records the        *)
(* lifetime the caller asked for (observation only).  stores counts the     *)
(* writes of `instance` and prior is the instance that the registration it  *)
(* replaced had cached (observation only); tok is the token it was          *)
(* registered with (observation only).                                     *)

NoReg == [key |-> NoKey, rid |-> 0, factory |-> "none", captured |-> Undefined,
          n |-> 0, singleton |-> FALSE, instance |-> Undefined, scope |-> "none",
          stores |-> 0, prior |-> Undefined, tok |-> NoTok]

MapHas(svcs, key) == \E i \in 1..Len(svcs) : svcs[i].key = key

MapGet(svcs, key) ==
    IF MapHas(svcs, key)
    THEN svcs[CHOOSE i \in 1..Len(svcs) : svcs[i].key = key]
    ELSE NoReg

\* Map.set that keeps the cached instance of the entry it replaces
MutMapSetKeepsInstance(svcs, entry) ==
    IF MapHas(svcs, entry.key)
    THEN [i \in 1..Len(svcs) |->
            IF svcs[i].key = entry.key
            THEN [entry EXCEPT !.instance = svcs[i].instance] ELSE svcs[i]]
    ELSE Append(svcs, entry)

\* Map.set that deletes the key and inserts it again at the end
MutMapSetReinserts(svcs, entry) ==
    Append(SelectSeq(svcs, LAMBDA e : e.key # entry.key), entry)

MapSet(svcs, entry) ==
    IF MapHas(svcs, entry.key)
    THEN [i \in 1..Len(svcs) |-> IF svcs[i].key = entry.key THEN entry ELSE svcs[i]]
    ELSE Append(svcs, entry)

MapKeys(svcs) == [i \in 1..Len(svcs) |-> svcs[i].key]

LeastFree(S) ==
    CHOOSE n \in 1..(Cardinality(S) + 1) : n \notin S /\ \A m \in 1..(n - 1) : m \in S

FramesOf(chains) == UNION {{c[i] : i \in 1..Len(c)} : c \in chains}

AllFrames == FramesOf(suspended \cup {cur})

\* identities of the registration objects still referenced
UsedRids == {services[i].rid : i \in 1..Len(services)} \cup {f.rid : f \in AllFrames}

FreshRid == LeastFree(UsedRids)

ObjsOf(svcs) ==
    {svcs[i].instance.id : i \in 1..Len(svcs)}
      \cup {svcs[i].captured.id : i \in 1..Len(svcs)}
      \cup {svcs[i].prior.id : i \in 1..Len(svcs)}

\* identities of the objects still referenced by the container, a call or the caller
UsedObjs ==
    ObjsOf(services)
      \cup {f.res.v.id : f \in AllFrames}
      \cup {f.captured.id : f \in AllFrames}
      \cup {f.obs.reg.instance.id : f \in AllFrames}
      \cup {f.obs.reg.captured.id : f \in AllFrames}
      \cup UNION {ObjsOf(f.disp.snap) : f \in AllFrames}
      \cup {prevRet[k].v.id : k \in DOMAIN prevRet}
      \cup {prevRet[k].dropped.id : k \in DOMAIN prevRet}
      \cup {teardowns[i] : i \in 1..Len(teardowns)}

FreshId(extra) == LeastFree((UsedObjs \cup extra) \ {0})

FreshObj(extra) == Obj(FreshId(extra))

\* register(): _services.set(key, {factory, singleton: scope === SINGLETON})
MutRegistrationAlwaysSingleton(key, rid, factory, scope) ==
    [key |-> key, rid |-> rid, factory |-> factory, captured |-> Undefined,
     n |-> 0, singleton |-> TRUE, instance |-> Undefined, scope |-> scope,
     stores |-> 0, prior |-> Undefined, tok |-> NoTok]

Registration(key, rid, factory, scope) ==
    [key |-> key, rid |-> rid, factory |-> factory, captured |-> Undefined,
     n |-> 0, singleton |-> (scope = "singleton"), instance |-> Undefined,
     scope |-> scope, stores |-> 0, prior |-> Undefined, tok |-> NoTok]

\* registerInstance(): _services.set(key, {factory: () => instance, singleton: true, instance})
InstanceRegistration(key, rid, instance) ==
    [key |-> key, rid |-> rid, factory |-> "const", captured |-> instance,
     n |-> 0, singleton |-> TRUE, instance |-> instance, scope |-> "instance",
     stores |-> 1, prior |-> Undefined, tok |-> NoTok]

\* has() that answers whether the key has a cached instance
MutHasCachedOnly(token) == MapGet(services, getTokenKey(token)).instance # Undefined

has(token) == MapHas(services, getTokenKey(token))

getRegisteredTokens == MapKeys(services)

----------------------------------------------------------------------------
(* Call frames.  A frame is one resolve or resolveAsync call together with  *)
(* the factory invocation it makes.  pc: "enter" (called, nothing done     *)
(* yet), "factory" (key pushed, factory about to be called), "dep" (the     *)
(* factory is inside a nested resolve), "returned" (the factory returned or *)
(* threw), "await" (resolveAsync suspended at `await registration.factory()`) *)

\* what a call or a factory ends with: a value, or an error (its name, the
\* fixed part of its message and the key the message carries)
NoRes        == [st |-> "none", v |-> Undefined, e |-> "none", msg |-> "", ekey |-> NoKey]
Val(v)       == [st |-> "val", v |-> v, e |-> "none", msg |-> "", ekey |-> NoKey]
Err(e, m, k) == [st |-> "err", v |-> Undefined, e |-> e, msg |-> m, ekey |-> k]

\* observation: what a call found when it was entered (used by the properties only)
NoObs == [wasReg |-> FALSE, onStack |-> FALSE, nested |-> FALSE, reg |-> NoReg,
          cycle |-> {}, mixed |-> {}]

\* the part of a frame that a dispose() call uses: pos is the position of the
\* iterator of `for (... of this._services)`; the rest is observation: the table
\* when dispose() was called, whether no other call was suspended then, the
\* caller's budget then, and the instances whose dispose() this call invoked
NoDisp == [pos |-> 0, snap |-> <<>>, alone |-> FALSE, budget0 |-> 0, torn |-> <<>>]

NewFrame(kind, key, top) ==
    [kind |-> kind, key |-> key, top |-> top, pc |-> "enter", rid |-> 0,
     fac |-> "none", captured |-> Undefined, n |-> 0, sing |-> FALSE,
     invoked |-> FALSE, res |-> NoRes, obs |-> NoObs, disp |-> NoDisp, tok |-> NoTok]

\* const registration = this._services.get(key)
WithReg(f, reg) ==
    [f EXCEPT !.rid = reg.rid, !.fac = reg.factory, !.captured = reg.captured,
              !.n = reg.n, !.sing = reg.singleton]

Top(chain) == chain[Len(chain)]

\* if (this._resolutionStack.has(key)) throw new CircularDependencyError(...)
MutOnStackNever(key) == FALSE

OnStack(key) == key \in resolutionStack

\* the same with the return inside `if (this._performanceTracking) { ... }`
MutCacheHitWhenTracking(reg) ==
    performanceTracking /\ reg.singleton /\ reg.instance # Undefined

\* if (registration.singleton && registration.instance !== undefined) return it
CacheHit(reg) == reg.singleton /\ reg.instance # Undefined

\* if (instance instanceof Promise) throw new DIContainerError(...)
MutIsPromiseNever(fdef) == FALSE

IsPromise(fdef) == fdef.async

\* if (registration.singleton) registration.instance = instance
\* the same putting the registration back when it is no longer in the table
MutStoreInstanceReinserts(svcs, f, v) ==
    IF ~f.sing THEN svcs
    ELSE IF \E i \in 1..Len(svcs) : svcs[i].rid = f.rid
    THEN [i \in 1..Len(svcs) |->
            IF svcs[i].rid = f.rid
            THEN [svcs[i] EXCEPT !.instance = v, !.stores = @ + 1]
            ELSE svcs[i]]
    ELSE MapSet(svcs, [f.obs.reg EXCEPT !.instance = v, !.stores = @ + 1])

MutStoreInstanceAlways(svcs, f, v) ==
    [i \in 1..Len(svcs) |->
       IF svcs[i].rid = f.rid
       THEN [svcs[i] EXCEPT !.instance = v, !.stores = @ + 1]
       ELSE svcs[i]]

StoreInstance(svcs, f, v) ==
    IF f.sing
    THEN [i \in 1..Len(svcs) |->
            IF svcs[i].rid = f.rid
            THEN [svcs[i] EXCEPT !.instance = v, !.stores = @ + 1]
            ELSE svcs[i]]
    ELSE svcs

\* the error classes: CircularDependencyError and ServiceNotFoundError extend
\* DIContainerError; the synchronous path throws a plain DIContainerError for a promise
\* the same naming the key at which the resolution started
MutCircularNamesRoot(key) ==
    Err("CircularDependencyError", "Circular dependency detected for token: ",
        IF cur # <<>> THEN cur[1].key ELSE key)

CircularDependencyError(key) ==
    Err("CircularDependencyError", "Circular dependency detected for token: ", key)

MutServiceNotFoundAsBaseError(key) ==
    Err("DIContainerError", "Service not found for token: ", key)

ServiceNotFoundError(key) ==
    Err("ServiceNotFoundError", "Service not found for token: ", key)

\* the promise check reports the lookup miss of the same key instead
MutAsyncInSyncAsNotFound(key) ==
    Err("ServiceNotFoundError", "Service not found for token: ", key)

AsyncInSyncContextError(key) ==
    Err("DIContainerError", "Cannot resolve async service synchronously: ", key)

\* class X extends Y
Extends(class) ==
    CASE class = "CircularDependencyError" -> "DIContainerError"
      [] class = "ServiceNotFoundError"    -> "DIContainerError"
      [] class = "DIContainerError"        -> "Error"
      [] OTHER                             -> "none"

\* error instanceof class, for an error constructed by the class named e
RECURSIVE InstanceOf(_, _)
InstanceOf(e, class) == e # "none" /\ (e = class \/ InstanceOf(Extends(e), class))

\* finally { this._resolutionStack.delete(key) }
MutStackOnExitSuccessOnly(stack, key, out) ==
    IF out.st = "val" THEN stack \ {key} ELSE stack

StackOnExit(stack, key, out) == stack \ {key}

\* what the factory's own code produces once its nested calls are done
FactoryResult(f, extra) ==
    LET r == FactoryDef(f.fac).result IN
    CASE r = "object"    -> Val(FreshObj(extra))
      [] r = "undefined" -> Val(Undefined)
      [] r = "number"    -> Val(Zero)
      [] r = "instance"  -> Val(f.captured)
      [] r = "counted"   -> IF f.n = 0 THEN Val(Undefined) ELSE Val(FreshObj(extra))
      [] r = "ok"        -> Val(Disposable(FreshId(extra), "object", "ok"))
      [] r = "reject"    -> Val(Disposable(FreshId(extra), "object", "reject"))
      [] r = "throw-on-dispose" -> Val(Disposable(FreshId(extra), "object", "throw"))
      [] r = "function"  -> Val(Disposable(FreshId(extra), "function", "ok"))
      [] r = "throw"     -> Err("Error", "factory failed", NoKey)

----------------------------------------------------------------------------
(* Observations of the calls, for the properties below *)

\* per key: the outcome of the caller's last call on it, and whether the key
\* was registered when the table was last cleared and has not been registered
\* since (cleared), with the instance it had cached then (dropped)
NoPrev == [kind |-> "none", st |-> "none", v |-> Undefined, e |-> "none", rid |-> 0,
           invoked |-> FALSE, cleared |-> FALSE, dropped |-> Undefined]

ClearedPrev ==
    [k \in DOMAIN prevRet |->
       IF MapHas(services, k)
       THEN [NoPrev EXCEPT !.cleared = TRUE, !.dropped = MapGet(services, k).instance]
       ELSE [NoPrev EXCEPT !.cleared = prevRet[k].cleared, !.dropped = prevRet[k].dropped]]

NoEvent ==
    [st |-> "none", v |-> Undefined, e |-> "none", msg |-> "", ekey |-> NoKey,
     kind |-> "none",
     key |-> NoKey, top |-> FALSE, rid |-> 0, fac |-> "none", sing |-> FALSE,
     invoked |-> FALSE, pushed |-> FALSE, fres |-> NoRes, wasReg |-> FALSE,
     onStack |-> FALSE, nested |-> FALSE, reg |-> NoReg, cycle |-> {}, prev |-> NoPrev,
     disp |-> NoDisp, tok |-> NoTok, mixed |-> {}]

Event(f, out) ==
    [st |-> out.st, v |-> out.v, e |-> out.e, msg |-> out.msg, ekey |-> out.ekey,
     kind |-> f.kind,
     key |-> f.key, top |-> f.top, rid |-> f.rid, fac |-> f.fac, sing |-> f.sing,
     invoked |-> f.invoked, pushed |-> (f.pc # "enter"), fres |-> f.res,
     wasReg |-> f.obs.wasReg, onStack |-> f.obs.onStack, nested |-> f.obs.nested,
     reg |-> f.obs.reg, cycle |-> f.obs.cycle, prev |-> prevRet[f.key],
     disp |-> NoDisp, tok |-> f.tok, mixed |-> f.obs.mixed]

\* _updatePerformanceMetrics(key, ...): metrics.totalResolutions++
\* the same without the test of the monitoring option
MutUpdateIgnoresOption(metrics, key) == [metrics EXCEPT ![key] = @ + 1]

updatePerformanceMetrics(metrics, key) ==
    IF performanceTracking THEN [metrics EXCEPT ![key] = @ + 1] ELSE metrics

\* the factory of the calling frame goes on once its nested resolve has ended
Continue(parent, out) ==
    IF out.st = "err"
    THEN [parent EXCEPT !.pc = "returned", !.res = out]
    ELSE [parent EXCEPT !.pc = "returned", !.res = FactoryResult(parent, {out.v.id})]

\* The call of frame f, on top of `chain`, ends with `out`; svcs is the table
\* after the step.  The result goes to the calling factory, or to the caller.
Complete(chain, f, out, svcs) ==
    LET n == Len(chain) IN
    /\ done' = Event(f, out)
    /\ serviceMetrics' = IF out.st = "val"
                         THEN updatePerformanceMetrics(serviceMetrics, f.key)
                         ELSE serviceMetrics
    /\ IF n = 1
       THEN /\ cur' = <<>>
            /\ prevRet' =
                 IF ~f.top THEN prevRet
                 ELSE [prevRet EXCEPT ![f.key] =
                         IF out.st = "val" /\ MapGet(svcs, f.key).rid # f.rid
                         THEN [NoPrev EXCEPT !.cleared = prevRet[f.key].cleared,
                                             !.dropped = prevRet[f.key].dropped]
                         ELSE [kind |-> f.kind, st |-> out.st, v |-> out.v, e |-> out.e,
                               rid |-> f.rid, invoked |-> f.invoked,
                               cleared |-> prevRet[f.key].cleared,
                               dropped |-> prevRet[f.key].dropped]]
       ELSE /\ cur' = [i \in 1..(n - 1) |->
                         IF i = n - 1 THEN Continue(chain[i], out) ELSE chain[i]]
            /\ prevRet' = prevRet

----------------------------------------------------------------------------
(* The caller's operations, issued while no call chain is running *)

Scopes == {"singleton", "transient"}

Idle == cur = <<>>

ResetPrev(key) == [prevRet EXCEPT ![key] = NoPrev]

\* observation: the operation of the caller that has just been carried out, with
\* what it was given (token, factory, lifetime or instance)
OpEvent(kind, token, factory, sing, v) ==
    [NoEvent EXCEPT !.kind = kind, !.tok = token, !.key = getTokenKey(token),
                    !.fac = factory, !.sing = sing, !.v = v]

\* observation: the new registration remembers what the one it replaces had cached
WithPrior(entry, token) ==
    [entry EXCEPT !.prior = MapGet(services, entry.key).instance, !.tok = token]

Init ==
    /\ services = <<>>
    /\ resolutionStack = {}
    /\ cur = <<>>
    /\ suspended = {}
    /\ done = NoEvent
    /\ prevRet = [k \in Keys |-> NoPrev]
    /\ budget = MaxOps
    /\ performanceTracking = FALSE
    /\ firstRun = <<>>
    /\ replay = 0
    /\ serviceMetrics = [k \in Keys |-> 0]
    /\ teardowns = <<>>

\* register(token, factory, scope); registerSingleton and registerTransient
\* are register with the scope fixed
register(token, factory, scope) ==
    /\ Idle /\ budget > 0
    /\ services' = MapSet(services,
                          WithPrior(Registration(getTokenKey(token), FreshRid, factory, scope),
                                    token))
    /\ prevRet' = ResetPrev(getTokenKey(token))
    /\ budget' = budget - 1
    /\ done' = OpEvent("register", token, factory, scope = "singleton", Undefined)
    /\ UNCHANGED <<resolutionStack, cur, suspended>>
    /\ UNCHANGED <<performanceTracking, firstRun, replay, serviceMetrics, teardowns>>

registerSingleton(token, factory) == register(token, factory, "singleton")

registerTransient(token, factory) == register(token, factory, "transient")

\* the values the caller hands to registerInstance
InstanceMenu == {Undefined, Zero, FreshObj({})}

registerInstance(token, instance) ==
    /\ Idle /\ budget > 0
    /\ services' = MapSet(services,
                          WithPrior(InstanceRegistration(getTokenKey(token), FreshRid, instance),
                                    token))
    /\ prevRet' = ResetPrev(getTokenKey(token))
    /\ budget' = budget - 1
    /\ done' = OpEvent("registerInstance", token, "none", TRUE, instance)
    /\ UNCHANGED <<resolutionStack, cur, suspended>>
    /\ UNCHANGED <<performanceTracking, firstRun, replay, serviceMetrics, teardowns>>

\* this._services.clear(), seen by the iterators of the suspended dispose() calls:
\* an iterator goes on with the entries that are set after the Map was cleared
ClearIterators(chains) ==
    {[i \in 1..Len(c) |-> IF c[i].kind = "dispose" THEN [c[i] EXCEPT !.disp.pos = 0]
                                                    ELSE c[i]] : c \in chains}

\* this._serviceMetrics.clear()
ResetMetrics(metrics) == [k \in DOMAIN metrics |-> 0]

\* the same dropping the performance counters with the registrations
MutClearResetsStats ==
    /\ Idle /\ budget > 0
    /\ services' = <<>>
    /\ suspended' = ClearIterators(suspended)
    /\ prevRet' = ClearedPrev
    /\ budget' = budget - 1
    /\ done' = OpEvent("clear", NoTok, "none", FALSE, Undefined)
    /\ serviceMetrics' = ResetMetrics(serviceMetrics)
    /\ UNCHANGED <<resolutionStack, cur>>
    /\ UNCHANGED <<performanceTracking, firstRun, replay, teardowns>>

\* clear() that keeps the registrations that hold a cached instance
MutClearKeepsCached ==
    /\ Idle /\ budget > 0
    /\ services' = SelectSeq(services, LAMBDA r : r.instance # Undefined)
    /\ suspended' = ClearIterators(suspended)
    /\ prevRet' = ClearedPrev
    /\ budget' = budget - 1
    /\ done' = OpEvent("clear", NoTok, "none", FALSE, Undefined)
    /\ UNCHANGED <<resolutionStack, cur>>
    /\ UNCHANGED <<performanceTracking, firstRun, replay, serviceMetrics, teardowns>>

\* clear() that calls dispose() on the cached instances that have one
MutClearTearsDown ==
    /\ Idle /\ budget > 0
    /\ services' = <<>>
    /\ suspended' = ClearIterators(suspended)
    /\ prevRet' = ClearedPrev
    /\ budget' = budget - 1
    /\ done' = OpEvent("clear", NoTok, "none", FALSE, Undefined)
    /\ teardowns' = teardowns \o [i \in 1..Len(services) |-> services[i].instance.id]
    /\ UNCHANGED <<resolutionStack, cur>>
    /\ UNCHANGED <<performanceTracking, firstRun, replay, serviceMetrics>>

clear ==
    /\ Idle /\ budget > 0
    /\ services' = <<>>
    /\ suspended' = ClearIterators(suspended)
    /\ prevRet' = ClearedPrev
    /\ budget' = budget - 1
    /\ done' = OpEvent("clear", NoTok, "none", FALSE, Undefined)
    /\ UNCHANGED <<resolutionStack, cur>>
    /\ UNCHANGED <<performanceTracking, firstRun, replay, serviceMetrics, teardowns>>

\* a boolean the container returns
Bool(b) == [t |-> IF b THEN "true" ELSE "false", id |-> 0, teardown |-> "none"]

\* the caller calls has(token)
hasCall(token) ==
    /\ Idle
    /\ done' = OpEvent("has", token, "none", FALSE, Bool(has(token)))
    /\ UNCHANGED <<services, resolutionStack, cur, suspended, prevRet, budget>>
    /\ UNCHANGED <<performanceTracking, firstRun, replay, serviceMetrics, teardowns>>

\* the caller calls resolve(token): the call starts to run
resolve(token) ==
    /\ Idle /\ budget > 0
    /\ cur' = <<[NewFrame("resolve", getTokenKey(token), TRUE) EXCEPT !.tok = token]>>
    /\ budget' = budget - 1
    /\ done' = NoEvent
    /\ UNCHANGED <<services, resolutionStack, suspended, prevRet>>
    /\ UNCHANGED <<performanceTracking, firstRun, replay, serviceMetrics, teardowns>>

\* the caller calls resolveAsync(token): it runs synchronously up to its await
resolveAsync(token) ==
    /\ Idle /\ budget > 0
    /\ cur' = <<[NewFrame("resolveAsync", getTokenKey(token), TRUE) EXCEPT !.tok = token]>>
    /\ budget' = budget - 1
    /\ done' = NoEvent
    /\ UNCHANGED <<services, resolutionStack, suspended, prevRet>>
    /\ UNCHANGED <<performanceTracking, firstRun, replay, serviceMetrics, teardowns>>

----------------------------------------------------------------------------
(* The steps of a running call *)

\* observation: the keys of the cycle of nested resolves through key, as the
\* table stands: each key's factory resolves the next and none is cached
DepOf(key) ==
    IF key # NoKey /\ MapHas(services, key)
    THEN LET r == MapGet(services, key)
             d == FactoryDef(r.factory)
         IN IF (r.singleton /\ r.instance # Undefined) \/ d.async \/ d.pre # "none"
            THEN NoKey ELSE d.dep
    ELSE NoKey

RECURSIVE Follow(_, _)
Follow(key, n) == IF n = 0 THEN key ELSE Follow(DepOf(key), n - 1)

CycleThrough(key) ==
    IF \E n \in 1..Cardinality(Keys) : Follow(key, n) = key
    THEN {Follow(key, n) : n \in 0..Cardinality(Keys)}
    ELSE {}

\* observation: the same with factories of every kind, synchronous or not
AnyDepOf(key) ==
    IF key # NoKey /\ MapHas(services, key)
    THEN LET r == MapGet(services, key)
             d == FactoryDef(r.factory)
         IN IF (r.singleton /\ r.instance # Undefined) \/ d.pre # "none"
            THEN NoKey ELSE d.dep
    ELSE NoKey

RECURSIVE AnyFollow(_, _)
AnyFollow(key, n) == IF n = 0 THEN key ELSE AnyFollow(AnyDepOf(key), n - 1)

MixedCycleThrough(key) ==
    IF \E n \in 1..Cardinality(Keys) : AnyFollow(key, n) = key
    THEN {AnyFollow(key, n) : n \in 0..Cardinality(Keys)}
    ELSE {}

\* observation: what the call finds on entry, before it does anything
EntryObs(key) ==
    [wasReg |-> MapHas(services, key),
     onStack |-> key \in resolutionStack,
     nested |-> \E i \in 1..(Len(cur) - 1) :
                   cur[i].key = key /\ cur[i].pc \in {"factory", "dep", "returned"},
     reg |-> MapGet(services, key),
     cycle |-> CycleThrough(key),
     mixed |-> MixedCycleThrough(key)]

\* the same with the lookup and the cache test made before the cycle check
MutEnterLookupFirst ==
    /\ cur # <<>>
    /\ Top(cur).pc = "enter"
    /\ LET key == Top(cur).key
           f == [Top(cur) EXCEPT !.obs = EntryObs(key)]
           reg == MapGet(services, key)
       IN IF ~MapHas(services, key)
          THEN /\ Complete(cur, f, ServiceNotFoundError(key), services)
               /\ UNCHANGED <<services, resolutionStack>>
          ELSE IF CacheHit(reg)
          THEN /\ Complete(cur, WithReg(f, reg), Val(reg.instance), services)
               /\ UNCHANGED <<services, resolutionStack>>
          ELSE IF OnStack(key)
          THEN /\ Complete(cur, f, CircularDependencyError(key), services)
               /\ UNCHANGED <<services, resolutionStack>>
          ELSE /\ resolutionStack' = resolutionStack \cup {key}
               /\ cur' = [cur EXCEPT ![Len(cur)] = [WithReg(f, reg) EXCEPT !.pc = "factory"]]
               /\ done' = NoEvent
               /\ UNCHANGED <<services, prevRet, serviceMetrics>>
    /\ UNCHANGED <<suspended, budget, performanceTracking, firstRun, replay, teardowns>>

\* resolve / resolveAsync up to the factory call: cycle check, lookup, cache hit,
\* push on the resolution stack (the two methods have the same code here)
Enter ==
    /\ cur # <<>>
    /\ Top(cur).pc = "enter"
    /\ LET key == Top(cur).key
           f == [Top(cur) EXCEPT !.obs = EntryObs(key)]
           reg == MapGet(services, key)
       IN IF OnStack(key)
          THEN /\ Complete(cur, f, CircularDependencyError(key), services)
               /\ UNCHANGED <<services, resolutionStack>>
          ELSE IF ~MapHas(services, key)
          THEN /\ Complete(cur, f, ServiceNotFoundError(key), services)
               /\ UNCHANGED <<services, resolutionStack>>
          ELSE IF CacheHit(reg)
          THEN /\ Complete(cur, WithReg(f, reg), Val(reg.instance), services)
               /\ UNCHANGED <<services, resolutionStack>>
          ELSE /\ resolutionStack' = resolutionStack \cup {key}
               /\ cur' = [cur EXCEPT ![Len(cur)] = [WithReg(f, reg) EXCEPT !.pc = "factory"]]
               /\ done' = NoEvent
               /\ UNCHANGED <<services, prevRet, serviceMetrics>>
    /\ UNCHANGED <<suspended, budget, performanceTracking, firstRun, replay, teardowns>>

\* n++ in the closure of the factory of the registration object rid
CountCall(svcs, f) ==
    IF FactoryDef(f.fac).result = "counted"
    THEN [i \in 1..Len(svcs) |->
            IF svcs[i].rid = f.rid THEN [svcs[i] EXCEPT !.n = @ + 1] ELSE svcs[i]]
    ELSE svcs

\* registration.factory(): the factory runs up to its nested resolve, or to its end
InvokeFactory ==
    /\ cur # <<>>
    /\ Top(cur).pc = "factory"
    /\ LET f == Top(cur)
           fdef == FactoryDef(f.fac)
           g == [f EXCEPT !.invoked = TRUE]
       IN /\ IF fdef.pre = "clear"
             THEN /\ services' = <<>>
                  /\ suspended' = ClearIterators(suspended)
                  /\ prevRet' = ClearedPrev
             ELSE IF fdef.pre = "registerInstance"
             THEN /\ services' = MapSet(services,
                                        WithPrior(InstanceRegistration(fdef.dep, FreshRid,
                                                                       FreshObj({})),
                                                  StrTok(fdef.dep.name)))
                  /\ prevRet' = ResetPrev(fdef.dep)
                  /\ UNCHANGED suspended
             ELSE /\ services' = CountCall(services, f)
                  /\ UNCHANGED <<suspended, prevRet>>
          /\ IF fdef.dep # NoKey
             THEN cur' = Append([cur EXCEPT ![Len(cur)] = [g EXCEPT !.pc = "dep"]],
                                NewFrame(fdef.via, fdef.dep, FALSE))
             ELSE cur' = [cur EXCEPT ![Len(cur)] =
                            [g EXCEPT !.pc = "returned", !.res = FactoryResult(f, {})]]
    /\ done' = NoEvent
    /\ UNCHANGED <<resolutionStack, budget>>
    /\ UNCHANGED <<performanceTracking, firstRun, replay, serviceMetrics, teardowns>>

\* the same with a catch block that wraps what the factory threw
MutResolveReturnWraps ==
    /\ cur # <<>>
    /\ Top(cur).pc = "returned"
    /\ Top(cur).kind = "resolve"
    /\ LET f == Top(cur)
           out == IF IsPromise(FactoryDef(f.fac)) THEN AsyncInSyncContextError(f.key)
                  ELSE IF f.res.st = "err"
                  THEN Err("DIContainerError", "Failed to resolve service: ", f.key)
                  ELSE f.res
           svcs == IF out.st = "val" THEN StoreInstance(services, f, out.v) ELSE services
       IN /\ services' = svcs
          /\ resolutionStack' = StackOnExit(resolutionStack, f.key, out)
          /\ Complete(cur, f, out, svcs)
    /\ UNCHANGED <<suspended, budget, performanceTracking, firstRun, replay, teardowns>>

\* the same undoing, when the call fails, what nested calls have cached
MutResolveReturnRollsBack ==
    /\ cur # <<>>
    /\ Top(cur).pc = "returned"
    /\ Top(cur).kind = "resolve"
    /\ LET f == Top(cur)
           out == IF IsPromise(FactoryDef(f.fac)) THEN AsyncInSyncContextError(f.key)
                  ELSE f.res
           svcs == IF out.st = "val" THEN StoreInstance(services, f, out.v)
                   ELSE [i \in 1..Len(services) |->
                           IF services[i].scope = "singleton"
                           THEN [services[i] EXCEPT !.instance = Undefined]
                           ELSE services[i]]
       IN /\ services' = svcs
          /\ resolutionStack' = StackOnExit(resolutionStack, f.key, out)
          /\ Complete(cur, f, out, svcs)
    /\ UNCHANGED <<suspended, budget, performanceTracking, firstRun, replay, teardowns>>

\* resolve after the factory returned or threw: promise check, store, finally
ResolveReturn ==
    /\ cur # <<>>
    /\ Top(cur).pc = "returned"
    /\ Top(cur).kind = "resolve"
    /\ LET f == Top(cur)
           out == IF IsPromise(FactoryDef(f.fac)) THEN AsyncInSyncContextError(f.key)
                  ELSE f.res
           svcs == IF out.st = "val" THEN StoreInstance(services, f, out.v) ELSE services
       IN /\ services' = svcs
          /\ resolutionStack' = StackOnExit(resolutionStack, f.key, out)
          /\ Complete(cur, f, out, svcs)
    /\ UNCHANGED <<suspended, budget, performanceTracking, firstRun, replay, teardowns>>

\* resolveAsync after the factory returned or threw: a synchronous throw leaves
\* through finally, anything else is awaited
ResolveAsyncAwait ==
    /\ cur # <<>>
    /\ Top(cur).pc = "returned"
    /\ Top(cur).kind = "resolveAsync"
    /\ LET f == Top(cur) IN
       IF ~FactoryDef(f.fac).async /\ f.res.st = "err"
       THEN /\ resolutionStack' = StackOnExit(resolutionStack, f.key, f.res)
            /\ Complete(cur, f, f.res, services)
            /\ UNCHANGED <<services, suspended>>
       ELSE /\ suspended' = suspended \cup {[cur EXCEPT ![Len(cur)] = [f EXCEPT !.pc = "await"]]}
            /\ cur' = <<>>
            /\ done' = NoEvent
            /\ UNCHANGED <<services, resolutionStack, prevRet, serviceMetrics>>
    /\ UNCHANGED <<budget, performanceTracking, firstRun, replay, teardowns>>

\* the awaited factory result arrives: resolveAsync stores it and leaves through finally
Resume(chain) ==
    /\ Idle
    /\ chain \in suspended
    /\ Top(chain).kind = "resolveAsync"
    /\ LET f == Top(chain)
           out == f.res
           svcs == IF out.st = "val" THEN StoreInstance(services, f, out.v) ELSE services
       IN /\ services' = svcs
          /\ resolutionStack' = StackOnExit(resolutionStack, f.key, out)
          /\ Complete(chain, f, out, svcs)
    /\ suspended' = suspended \ {chain}
    /\ UNCHANGED <<budget, performanceTracking, firstRun, replay, teardowns>>

\* dispose(): the caller calls it and it starts to run
dispose ==
    /\ Idle /\ budget > 0
    /\ cur' = <<[NewFrame("dispose", NoKey, TRUE) EXCEPT
                   !.pc = "loop",
                   !.disp = [NoDisp EXCEPT !.snap = services, !.alone = (suspended = {}),
                                           !.budget0 = budget - 1]]>>
    /\ budget' = budget - 1
    /\ done' = NoEvent
    /\ UNCHANGED <<services, resolutionStack, suspended, prevRet>>
    /\ UNCHANGED <<performanceTracking, firstRun, replay, serviceMetrics, teardowns>>

\* registration.instance && typeof registration.instance === 'object'
\*   && typeof instance.dispose === 'function'
HasTeardown(v) == v.t = "object" /\ v.teardown # "none"

\* observation: the dispose() call of frame f has ended
DisposeEvent(f) ==
    [NoEvent EXCEPT !.kind = "dispose", !.st = "val", !.top = TRUE, !.disp = f.disp]

\* after the loop: this.clear()
DisposeClear(svcs) == <<>>

\* dispose(): one turn of the loop over this._services, or its end.  dispose() of
\* the instance is called inside try/catch and awaited: a throw is caught at
\* once, a promise suspends the call
DisposeStep ==
    /\ cur # <<>>
    /\ Top(cur).kind = "dispose"
    /\ Top(cur).pc = "loop"
    /\ LET f == Top(cur)
           p == f.disp.pos
       IN IF p >= Len(services)
          THEN /\ services' = DisposeClear(services)
               /\ suspended' = ClearIterators(suspended)
               /\ prevRet' = ClearedPrev
               /\ done' = DisposeEvent(f)
               /\ cur' = <<>>
               /\ UNCHANGED teardowns
          ELSE LET inst == services[p + 1].instance
                   g == [f EXCEPT !.disp.pos = p + 1]
                   h == [g EXCEPT !.disp.torn = Append(@, inst)]
               IN /\ done' = NoEvent
                  /\ UNCHANGED <<services, prevRet>>
                  /\ IF ~HasTeardown(inst)
                     THEN /\ cur' = <<g>>
                          /\ UNCHANGED <<suspended, teardowns>>
                     ELSE /\ teardowns' = Append(teardowns, inst.id)
                          /\ IF inst.teardown = "throw"
                             THEN cur' = <<h>> /\ UNCHANGED suspended
                             ELSE /\ cur' = <<>>
                                  /\ suspended' = suspended \cup {<<[h EXCEPT !.pc = "await"]>>}
    /\ UNCHANGED <<resolutionStack, budget, performanceTracking, firstRun, replay, serviceMetrics>>

\* the awaited dispose() of the instance has settled (a rejection is caught):
\* the loop goes on
DisposeResume(chain) ==
    /\ Idle
    /\ chain \in suspended
    /\ Top(chain).kind = "dispose"
    /\ cur' = <<[Top(chain) EXCEPT !.pc = "loop"]>>
    /\ suspended' = suspended \ {chain}
    /\ done' = NoEvent
    /\ UNCHANGED <<services, resolutionStack, prevRet, budget>>
    /\ UNCHANGED <<performanceTracking, firstRun, replay, serviceMetrics, teardowns>>

Next ==
    \/ \E t \in Tokens, f \in Factories : registerSingleton(t, f)
    \/ \E t \in Tokens, f \in Factories : registerTransient(t, f)
    \/ \E t \in Tokens, v \in InstanceMenu : registerInstance(t, v)
    \/ clear
    \/ \E t \in Tokens : resolve(t)
    \/ \E t \in Tokens : resolveAsync(t)
    \/ Enter
    \/ InvokeFactory
    \/ ResolveReturn
    \/ ResolveAsyncAwait
    \/ \E c \in suspended : Resume(c)

Spec == Init /\ [][Next]_vars

\* Chains of nested resolves over three keys: the caller registers factories
\* that resolve one another and resolves them.
ChainInit ==
    /\ services = <<>>
    /\ resolutionStack = {}
    /\ cur = <<>>
    /\ suspended = {}
    /\ done = NoEvent
    /\ prevRet = [k \in Keys |-> NoPrev]
    /\ budget = MaxChainOps
    /\ performanceTracking = FALSE
    /\ firstRun = <<>>
    /\ replay = 0
    /\ serviceMetrics = [k \in Keys |-> 0]
    /\ teardowns = <<>>

NextChain ==
    \/ \E t \in ChainTokens, f \in ChainFactories : registerSingleton(t, f)
    \/ \E t \in ChainTokens : registerTransient(t, "obj")
    \/ \E t \in ChainTokens : resolve(t)
    \/ \E t \in ChainTokens : resolveAsync(t)
    \/ Enter
    \/ InvokeFactory
    \/ ResolveReturn
    \/ ResolveAsyncAwait
    \/ \E c \in suspended : Resume(c)

SpecChain == ChainInit /\ [][NextChain]_vars

\* Disposal: a container built with performance monitoring enabled, whose
\* caller registers services with and without a dispose method, resolves
\* them, and calls dispose() and clear().
DisposeFactories == {"obj", "disposable", "faulty", "faultySync", "callable"}

DisposeInstances ==
    {Disposable(FreshId({}), "object", "ok"), Disposable(FreshId({}), "object", "reject")}

DisposeInit ==
    /\ services = <<>>
    /\ resolutionStack = {}
    /\ cur = <<>>
    /\ suspended = {}
    /\ done = NoEvent
    /\ prevRet = [k \in Keys |-> NoPrev]
    /\ budget = MaxDisposeOps
    /\ performanceTracking = TRUE
    /\ firstRun = <<>>
    /\ replay = 0
    /\ serviceMetrics = [k \in Keys |-> 0]
    /\ teardowns = <<>>

NextDispose ==
    \/ \E t \in Tokens, f \in DisposeFactories : registerSingleton(t, f)
    \/ \E t \in Tokens, v \in DisposeInstances : registerInstance(t, v)
    \/ \E t \in Tokens : resolve(t)
    \/ \E t \in Tokens : resolveAsync(t)
    \/ clear
    \/ dispose
    \/ Enter
    \/ InvokeFactory
    \/ ResolveReturn
    \/ ResolveAsyncAwait
    \/ \E c \in suspended : Resume(c)
    \/ DisposeStep
    \/ \E c \in suspended : DisposeResume(c)

SpecDispose == DisposeInit /\ [][NextDispose]_vars

\* Tokens: the caller registers and resolves with tokens of every kind.
TokenKeys == {getTokenKey(t) : t \in KeyTokens}

TokensInit ==
    /\ services = <<>>
    /\ resolutionStack = {}
    /\ cur = <<>>
    /\ suspended = {}
    /\ done = NoEvent
    /\ prevRet = [k \in TokenKeys |-> NoPrev]
    /\ budget = MaxTokenOps
    /\ performanceTracking = FALSE
    /\ firstRun = <<>>
    /\ replay = 0
    /\ serviceMetrics = [k \in TokenKeys |-> 0]
    /\ teardowns = <<>>

NextTokens ==
    \/ \E t \in KeyTokens : registerSingleton(t, "obj")
    \/ \E t \in KeyTokens : registerTransient(t, "obj")
    \/ \E t \in KeyTokens : registerInstance(t, FreshObj({}))
    \/ \E t \in KeyTokens : resolve(t)
    \/ \E t \in KeyTokens : resolveAsync(t)
    \/ Enter
    \/ InvokeFactory
    \/ ResolveReturn
    \/ ResolveAsyncAwait
    \/ \E c \in suspended : Resume(c)

SpecTokens == TokensInit /\ [][NextTokens]_vars

\* Stats: a container with performance monitoring enabled, whose caller resets
\* the statistics between registrations, resolutions, clear() and dispose().
StatsFactories == {"obj", "disposable"}

resetPerformanceStats ==
    /\ Idle /\ budget > 0
    /\ serviceMetrics' = ResetMetrics(serviceMetrics)
    /\ budget' = budget - 1
    /\ done' = OpEvent("resetPerformanceStats", NoTok, "none", FALSE, Undefined)
    /\ UNCHANGED <<services, resolutionStack, cur, suspended, prevRet>>
    /\ UNCHANGED <<performanceTracking, firstRun, replay, teardowns>>

\* getServiceMetrics(token): the totalResolutions of the one entry it returns,
\* or nothing when the key is not registered
getServiceMetrics(token) ==
    IF MapHas(services, getTokenKey(token))
    THEN <<serviceMetrics[getTokenKey(token)]>>
    ELSE <<>>

StatsInit ==
    /\ services = <<>>
    /\ resolutionStack = {}
    /\ cur = <<>>
    /\ suspended = {}
    /\ done = NoEvent
    /\ prevRet = [k \in Keys |-> NoPrev]
    /\ budget = MaxStatsOps
    /\ performanceTracking = TRUE
    /\ firstRun = <<>>
    /\ replay = 0
    /\ serviceMetrics = [k \in Keys |-> 0]
    /\ teardowns = <<>>

NextStats ==
    \/ \E t \in Tokens, f \in StatsFactories : registerSingleton(t, f)
    \/ \E t \in Tokens, f \in StatsFactories : registerTransient(t, f)
    \/ \E t \in Tokens : resolve(t)
    \/ \E t \in Tokens : resolveAsync(t)
    \/ resetPerformanceStats
    \/ clear
    \/ dispose
    \/ Enter
    \/ InvokeFactory
    \/ ResolveReturn
    \/ ResolveAsyncAwait
    \/ \E c \in suspended : Resume(c)
    \/ DisposeStep
    \/ \E c \in suspended : DisposeResume(c)

SpecStats == StatsInit /\ [][NextStats]_vars

\* Term: a container whose registrations are fixed, each key unregistered or
\* registered with a factory that resolves another key or none, and whose
\* caller issues synchronous resolve calls; the running call is run to its end.
TermFactories == {"none", "obj", "depA", "depB", "depC"}

\* the registry after registering the keys of order that menu gives a factory
RECURSIVE Registered(_, _, _)
Registered(order, menu, scope) ==
    IF order = <<>> THEN <<>>
    ELSE LET rest == Registered(SubSeq(order, 1, Len(order) - 1), menu, scope)
             key == order[Len(order)]
         IN IF menu[key] = "none" THEN rest
            ELSE Append(rest, [Registration(key, Len(rest) + 1, menu[key], scope)
                                 EXCEPT !.tok = StrTok(key.name)])

TermInit ==
    /\ \E menu \in [Keys -> TermFactories], scope \in Scopes :
          services = Registered(<<KeyA, KeyB, KeyC>>, menu, scope)
    /\ resolutionStack = {}
    /\ cur = <<>>
    /\ suspended = {}
    /\ done = NoEvent
    /\ prevRet = [k \in Keys |-> NoPrev]
    /\ budget = MaxTermCalls
    /\ performanceTracking = FALSE
    /\ firstRun = <<>>
    /\ replay = 0
    /\ serviceMetrics = [k \in Keys |-> 0]
    /\ teardowns = <<>>

\* a step of the running call
RunStep == Enter \/ InvokeFactory \/ ResolveReturn

NextTerm ==
    \/ \E k \in Keys : resolve(StrTok(k.name))
    \/ Enter
    \/ InvokeFactory
    \/ ResolveReturn

\* WF_vars(RunStep): the engine keeps running the call it has started.  A step
\* of the running call is enabled exactly while a call is running, and
\* ENABLED <<RunStep>>_vars is written as that guard.
RunToCompletion == []<>(cur = <<>>) \/ []<><<RunStep>>_vars

SpecTerm == TermInit /\ [][NextTerm]_vars /\ RunToCompletion

\* Count: a container built with performance monitoring enabled or disabled,
\* whose caller registers singletons that return, throw or resolve another
\* key, resolves them and resets the statistics.
CountFactories == {"obj", "throw", "depB"}

CountInit ==
    /\ services = <<>>
    /\ resolutionStack = {}
    /\ cur = <<>>
    /\ suspended = {}
    /\ done = NoEvent
    /\ prevRet = [k \in Keys |-> NoPrev]
    /\ budget = MaxCountOps
    /\ performanceTracking \in BOOLEAN
    /\ firstRun = <<>>
    /\ replay = 0
    /\ serviceMetrics = [k \in Keys |-> 0]
    /\ teardowns = <<>>

NextCount ==
    \/ \E t \in Tokens, f \in CountFactories : registerSingleton(t, f)
    \/ \E t \in Tokens : resolve(t)
    \/ \E t \in Tokens : resolveAsync(t)
    \/ resetPerformanceStats
    \/ Enter
    \/ InvokeFactory
    \/ ResolveReturn
    \/ ResolveAsyncAwait
    \/ \E c \in suspended : Resume(c)

SpecCount == CountInit /\ [][NextCount]_vars

\* Query: the caller asks has() between registrations, resolutions, clear() and
\* dispose().
QueryFactories == {"obj", "disposable"}

QueryInit ==
    /\ services = <<>>
    /\ resolutionStack = {}
    /\ cur = <<>>
    /\ suspended = {}
    /\ done = NoEvent
    /\ prevRet = [k \in Keys |-> NoPrev]
    /\ budget = MaxQueryOps
    /\ performanceTracking = FALSE
    /\ firstRun = <<>>
    /\ replay = 0
    /\ serviceMetrics = [k \in Keys |-> 0]
    /\ teardowns = <<>>

NextQuery ==
    \/ \E t \in Tokens, f \in QueryFactories : registerSingleton(t, f)
    \/ \E t \in Tokens : registerInstance(t, FreshObj({}))
    \/ \E t \in Tokens : resolve(t)
    \/ \E t \in Tokens : resolveAsync(t)
    \/ \E t \in Tokens : hasCall(t)
    \/ clear
    \/ dispose
    \/ Enter
    \/ InvokeFactory
    \/ ResolveReturn
    \/ ResolveAsyncAwait
    \/ \E c \in suspended : Resume(c)
    \/ DisposeStep
    \/ \E c \in suspended : DisposeResume(c)

SpecQuery == QueryInit /\ [][NextQuery]_vars

\* Twin: two containers, one built with enablePerformanceMonitoring and one
\* without, are given the same operations in the same order.  The first runs
\* and the states it goes through are kept in firstRun; then the second starts
\* from the state after construction and is given the same run.
TwinTokens == {StrTok("A")}
TwinFactories == {"obj", "throw", "asyncObj"}

\* everything of a container but the option and the counters
Outcome ==
    <<services, resolutionStack, cur, suspended, done, prevRet, budget, teardowns>>

TwinInit ==
    /\ services = <<>>
    /\ resolutionStack = {}
    /\ cur = <<>>
    /\ suspended = {}
    /\ done = NoEvent
    /\ prevRet = [k \in Keys |-> NoPrev]
    /\ budget = MaxTwinOps
    /\ performanceTracking \in BOOLEAN
    /\ serviceMetrics = [k \in Keys |-> 0]
    /\ teardowns = <<>>
    /\ firstRun = <<Outcome>>
    /\ replay = 0

\* a step of a container
ContainerStep ==
    \/ \E t \in TwinTokens, f \in TwinFactories : registerSingleton(t, f)
    \/ \E t \in TwinTokens, f \in TwinFactories : registerTransient(t, f)
    \/ \E t \in TwinTokens : resolve(t)
    \/ \E t \in TwinTokens : resolveAsync(t)
    \/ clear
    \/ Enter
    \/ InvokeFactory
    \/ ResolveReturn
    \/ ResolveAsyncAwait
    \/ \E c \in suspended : Resume(c)

Last(seq) == seq[Len(seq)]

\* the first container takes a step
FirstStep ==
    /\ replay = 0
    /\ Outcome = Last(firstRun)
    /\ ContainerStep

\* the state the first container has come to is kept
Keep ==
    /\ replay = 0
    /\ Outcome # Last(firstRun)
    /\ firstRun' = Append(firstRun, Outcome)
    /\ UNCHANGED <<services, resolutionStack, cur, suspended, done, prevRet, budget>>
    /\ UNCHANGED <<performanceTracking, serviceMetrics, teardowns, replay>>

\* the second container is constructed, with the other option
Second ==
    /\ replay = 0
    /\ Outcome = Last(firstRun)
    /\ Len(firstRun) > 1
    /\ services' = <<>>
    /\ resolutionStack' = {}
    /\ cur' = <<>>
    /\ suspended' = {}
    /\ done' = NoEvent
    /\ prevRet' = [k \in Keys |-> NoPrev]
    /\ budget' = MaxTwinOps
    /\ performanceTracking' = ~performanceTracking
    /\ serviceMetrics' = [k \in Keys |-> 0]
    /\ teardowns' = <<>>
    /\ replay' = 1
    /\ UNCHANGED firstRun

\* what the caller or the event loop did in the step from outcome o to outcome
\* o2: the running chain went on; or, the container being idle, the caller
\* called register, registerInstance or clear (done: the operation with its
\* arguments), or resolve or resolveAsync (cur: the new call with its token), or
\* a suspended call was resumed
StepInput(o, o2) ==
    IF o[3] # <<>> THEN <<"run">>
    ELSE IF o2[5].kind \in {"register", "registerInstance", "clear"}
    THEN <<"op", o2[5].kind, o2[5].tok, o2[5].fac, o2[5].sing, o2[5].v>>
    ELSE IF o2[4] = o[4]
    THEN <<"call", o2[3][1].kind, o2[3][1].tok>>
    ELSE <<"resume", o[4] \ o2[4]>>

\* the second container is given what the first one was given
SecondStep ==
    /\ replay > 0
    /\ replay < Len(firstRun)
    /\ Outcome = firstRun[replay]
    /\ ContainerStep
    /\ StepInput(Outcome, Outcome') = StepInput(firstRun[replay], firstRun[replay + 1])

\* the second container has come to the state the first one was in
Advance ==
    /\ replay > 0
    /\ replay < Len(firstRun)
    /\ Outcome = firstRun[replay + 1]
    /\ replay' = replay + 1
    /\ UNCHANGED <<services, resolutionStack, cur, suspended, done, prevRet, budget>>
    /\ UNCHANGED <<performanceTracking, serviceMetrics, teardowns, firstRun>>

NextTwin ==
    \/ FirstStep
    \/ Keep
    \/ Second
    \/ SecondStep
    \/ Advance

SpecTwin == TwinInit /\ [][NextTwin]_vars

\* Mixed: factories that resolve one another through both methods.
MixedInit ==
    /\ services = <<>>
    /\ resolutionStack = {}
    /\ cur = <<>>
    /\ suspended = {}
    /\ done = NoEvent
    /\ prevRet = [k \in Keys |-> NoPrev]
    /\ budget = MaxMixedOps
    /\ performanceTracking = FALSE
    /\ firstRun = <<>>
    /\ replay = 0
    /\ serviceMetrics = [k \in Keys |-> 0]
    /\ teardowns = <<>>

NextMixed ==
    \/ \E t \in Tokens, f \in MixedFactories : registerSingleton(t, f)
    \/ \E t \in Tokens : resolve(t)
    \/ \E t \in Tokens : resolveAsync(t)
    \/ Enter
    \/ InvokeFactory
    \/ ResolveReturn
    \/ ResolveAsyncAwait
    \/ \E c \in suspended : Resume(c)

SpecMixed == MixedInit /\ [][NextMixed]_vars

----------------------------------------------------------------------------
(* Properties.  `done` is the call that ended in the last step: its kind,   *)
(* key and outcome, what it found on entry (wasReg, onStack, nested, reg,   *)
(* cycle), whether it pushed its key and invoked its factory, and `prev`,   *)
(* the outcome of the caller's previous top-level call on the same key     *)
(* since the key was last registered or cleared.                           *)

AsyncInSyncMessage == "Cannot resolve async service synchronously: "

Building == {"factory", "dep", "returned", "await"}

\* C1: singleton identity.  Two consecutive top-level resolve calls on a key
\* registered as a singleton, with no re-registration or clear in between,
\* return the identical instance, and the factory runs at most once across them.
C1_SingletonIdentity ==
    (done.kind = "resolve" /\ done.top /\ done.st = "val" /\ done.sing
       /\ done.prev.kind = "resolve" /\ done.prev.st = "val" /\ done.prev.rid = done.rid)
    => (done.v = done.prev.v /\ ~(done.prev.invoked /\ done.invoked))

\* C2: transient distinctness.  A resolve call on a key registered with transient
\* lifetime that returns has invoked the factory in that call and returns what the
\* factory produced; of two consecutive such calls the second never returns the
\* object the first returned.
C2_TransientDistinct ==
    (done.kind = "resolve" /\ done.st = "val" /\ done.wasReg /\ done.reg.scope = "transient")
    => /\ done.invoked
       /\ done.fres.st = "val"
       /\ done.v = done.fres.v
       /\ (done.top /\ done.prev.kind = "resolve" /\ done.prev.st = "val"
             /\ done.prev.rid = done.rid /\ done.v.t = "object")
            => done.v # done.prev.v

C2_Witness ==
    /\ done.kind = "resolve" /\ done.top /\ done.st = "val"
    /\ done.reg.scope = "transient" /\ done.v.t = "object"
    /\ done.prev.kind = "resolve" /\ done.prev.st = "val" /\ done.prev.rid = done.rid

C4_StackScopedToCallTree ==
    (done.st = "err" /\ done.e = "CircularDependencyError" /\ ~done.pushed) => done.nested

\* C5: sync/async boundary.  A resolve call that reaches the factory of a key whose
\* factory returns a promise has invoked the factory, fails with the
\* DIContainerError that tells to use resolveAsync, naming the key, and leaves
\* nothing cached for the key.
C5_AsyncInSyncContext ==
    (done.kind = "resolve" /\ done.st # "none" /\ done.wasReg /\ ~done.onStack
       /\ ~(done.reg.singleton /\ done.reg.instance # Undefined)
       /\ FactoryDef(done.reg.factory).async)
    => /\ done.invoked
       /\ done.st = "err"
       /\ done.e = "DIContainerError"
       /\ done.msg = AsyncInSyncMessage
       /\ done.ekey = done.key
       /\ MapGet(services, done.key).instance = Undefined

\* the repeated call: the previous resolve of the key failed the same way
C5_Witness ==
    /\ done.kind = "resolve" /\ done.top /\ done.invoked
    /\ done.e = "DIContainerError" /\ done.msg = AsyncInSyncMessage
    /\ done.prev.kind = "resolve" /\ done.prev.e = "DIContainerError" /\ done.prev.invoked

\* C6: after resolveAsync returned for a singleton whose factory returns a promise,
\* a later resolve of the same registration succeeds and returns the instance
\* resolveAsync returned, without invoking the factory again.
C6_AsyncThenSyncCached ==
    (done.kind = "resolve" /\ done.top /\ done.st # "none" /\ done.wasReg
       /\ done.prev.kind = "resolveAsync" /\ done.prev.st = "val"
       /\ done.prev.rid = done.reg.rid
       /\ done.reg.singleton /\ FactoryDef(done.reg.factory).async)
    => (done.st = "val" /\ done.v = done.prev.v /\ ~done.invoked)

\* C7 as claimed: a call on a key that is not registered fails with
\* ServiceNotFoundError.
C7_NotFoundWheneverUnregistered ==
    (done.st # "none" /\ ~done.wasReg)
    => (done.st = "err" /\ done.e = "ServiceNotFoundError")

\* C7 as amended: a resolve or resolveAsync call on a key that is neither
\* registered nor on the resolution stack fails with ServiceNotFoundError naming
\* the key, and the step changes neither the registrations (cached instances
\* included), nor the resolution stack, nor the suspended calls.
C7_NotFound ==
    [][ (done'.st # "none" /\ ~done'.wasReg /\ ~done'.onStack)
          => /\ done'.st = "err"
             /\ done'.e = "ServiceNotFoundError"
             /\ done'.ekey = done'.key
             /\ services' = services
             /\ resolutionStack' = resolutionStack
             /\ suspended' = suspended ]_vars

\* the repeated call: the previous resolve of the key was not found either
C7_Witness ==
    /\ done.kind = "resolve" /\ done.top /\ done.e = "ServiceNotFoundError"
    /\ done.prev.kind = "resolve" /\ done.prev.e = "ServiceNotFoundError"

\* C8: stack rollback.  When a call that pushed its key ends in an error the key
\* is off the resolution stack as the error leaves the call; and a
\* CircularDependencyError is raised only for a key that a call still in progress
\* is building, never because of a call that has ended.
C8_StackRollback ==
    /\ (done.st = "err" /\ done.pushed) => done.key \notin resolutionStack
    /\ (done.st = "err" /\ done.e = "CircularDependencyError" /\ ~done.pushed)
         => \E f \in AllFrames : f.key = done.key /\ f.pc \in Building

C8_Witness ==
    done.st = "err" /\ done.pushed /\ done.top /\ done.e = "CircularDependencyError"

\* C9: instance registration shortcut.  A resolve of a key registered with
\* registerInstance(key, x), for any x, returns x without invoking a factory.
C9_InstanceShortcut ==
    (done.kind = "resolve" /\ done.st # "none" /\ done.wasReg /\ ~done.onStack
       /\ done.reg.scope = "instance")
    => (done.st = "val" /\ done.v = done.reg.captured /\ ~done.invoked)

\* C10: presence of the cached instance is independent of its value.  Once a
\* top-level call has returned a value for a singleton registration, a later
\* resolve or resolveAsync of that registration returns that value without
\* invoking the factory again, whatever the value is.
C10_PresenceIndependentOfValue ==
    (done.st # "none" /\ done.top /\ done.wasReg /\ ~done.onStack /\ done.reg.singleton
       /\ done.prev.st = "val" /\ done.prev.rid = done.reg.rid)
    => (done.st = "val" /\ done.v = done.prev.v /\ ~done.invoked)

\* C11: write-once cache.  Once the instance of a registration has been written
\* (by a resolve or resolveAsync call that built it, or by registerInstance), no
\* later step writes it again or replaces it with a different instance.
C11_WriteOnce ==
    [][ \A i \in 1..Len(services), j \in 1..Len(services') :
          (services[i].rid = services'[j].rid /\ services[i].stores > 0)
          => /\ services'[j].instance = services[i].instance
             /\ services'[j].stores = services[i].stores ]_vars

\* what a dispose() call found and did: the instances of the table in its order
Instances(svcs) == [i \in 1..Len(svcs) |-> svcs[i].instance]

\* the instance exposes a teardown operation
Exposes(v) == v.teardown # "none"

Fails(v) == v.teardown \in {"throw", "reject"}

Elems(seq) == {seq[i] : i \in 1..Len(seq)}

Count(seq, x) == Cardinality({i \in 1..Len(seq) : seq[i] = x})

\* the dispose() call that has just ended ran with no other call suspended and
\* with no operation of the caller in between
QuietDispose ==
    done.kind = "dispose" /\ done.disp.alone /\ done.disp.budget0 = budget

\* C12: disposal isolation.  When a dispose() call ends and the teardown of one
\* of the cached instances failed (threw or rejected), the teardown of every other
\* cached instance that exposes one has been invoked by this call, the call has
\* completed without raising, and no previously registered key is registered.
C12_DisposalIsolation ==
    done.kind = "dispose"
    => /\ done.st = "val"
       /\ \A i \in 1..Len(done.disp.snap) : ~MapHas(services, done.disp.snap[i].key)
       /\ (QuietDispose /\ \E v \in Elems(Instances(done.disp.snap)) : Fails(v))
            => \A v \in Elems(Instances(done.disp.snap)) :
                   Exposes(v) => v \in Elems(done.disp.torn)

\* C13: a dispose() call invokes the teardown of exactly the cached instances that
\* expose one, in the order of the table, each awaited before the next (the call
\* is suspended right after invoking a teardown that returns a promise), and a
\* step of the dispose() call changes no registration other than by clearing.
C13_DisposeVisitsAll ==
    [][ /\ (done'.kind = "dispose" /\ done'.disp.alone /\ done'.disp.budget0 = budget')
           => done'.disp.torn = SelectSeq(Instances(done'.disp.snap), Exposes)
        /\ (cur # <<>> /\ Top(cur).kind = "dispose")
           => /\ services' = services \/ services' = <<>>
              /\ teardowns' # teardowns
                   => (cur' = <<>> \/ Top(cur').disp.torn[Len(Top(cur').disp.torn)].teardown = "throw")
      ]_vars

\* C14: a dispose() call invokes the teardown of a singleton that was resolved once
\* and exposes a teardown exactly once, and a dispose() call made when no other
\* call is in progress never invokes a teardown that an earlier dispose() call
\* invoked.
C14_TeardownExactlyOnce ==
    QuietDispose
    => /\ \A i \in 1..Len(done.disp.snap) :
            LET r == done.disp.snap[i] IN
            (r.scope = "singleton" /\ r.stores = 1 /\ Exposes(r.instance))
            => Count(done.disp.torn, r.instance) = 1
       /\ \A v \in Elems(done.disp.torn) : Count(teardowns, v.id) = 1

\* C15 as claimed: after clear() no key is enumerated, has() is false for every key
\* that was registered, and a resolve of such a key called later fails with
\* ServiceNotFoundError.
C15_ClearThenNotFound ==
    /\ \A k \in Keys : prevRet[k].cleared => ~MapHas(services, k)
    /\ (done.kind \in {"resolve", "resolveAsync"} /\ done.prev.cleared /\ ~done.wasReg)
         => (done.st = "err" /\ done.e = "ServiceNotFoundError")

\* C15 as amended: a key that was registered when the table was cleared, cached or
\* not, and has not been registered since is not registered (and clear() leaves an
\* empty enumeration); a resolve or resolveAsync of it called later fails with
\* ServiceNotFoundError naming the key, unless the key is on the resolution stack.
C15_ClearSemantics ==
    [][ /\ done'.kind = "clear"
             => (getRegisteredTokens' = <<>> /\ \A t \in Tokens : ~has(t)')
        /\ \A k \in Keys : prevRet'[k].cleared => ~MapHas(services', k)
        /\ (done'.kind \in {"resolve", "resolveAsync"} /\ done'.prev.cleared
               /\ ~done'.wasReg /\ ~done'.onStack)
             => (done'.st = "err" /\ done'.e = "ServiceNotFoundError" /\ done'.ekey = done'.key)
      ]_vars

\* a resolve of a key that was cleared while it held a cached instance
C15_Witness ==
    /\ done.kind = "resolve" /\ done.top /\ done.e = "ServiceNotFoundError"
    /\ done.prev.cleared /\ done.prev.dropped # Undefined

\* C16: clear() invokes no teardown operation and no factory: the step removes all
\* registrations and leaves the resolution stack, the performance counters, the
\* teardown log and the calls in progress as they are (their iterators over the
\* table apart).
C16_ClearFrame ==
    [][ done'.kind = "clear"
          => /\ services' = <<>>
             /\ cur' = cur
             /\ teardowns' = teardowns
             /\ resolutionStack' = resolutionStack
             /\ serviceMetrics' = serviceMetrics
             /\ ClearIterators(suspended') = ClearIterators(suspended) ]_vars

\* a key was cleared while it held an instance with a teardown operation, which
\* has never been invoked, and a resolution of the key had been counted
C16_Witness ==
    \E k \in Keys :
       /\ prevRet[k].cleared
       /\ prevRet[k].dropped.t = "object" /\ Exposes(prevRet[k].dropped)
       /\ Count(teardowns, prevRet[k].dropped.id) = 0
       /\ serviceMetrics[k] > 0
       /\ suspended = {} /\ cur = <<>>

\* C17: re-registration is last-write-wins with no merge.  A register* call on a
\* key leaves, at the key's place in the table, a new registration object with the
\* factory and lifetime (or the instance) it was given and nothing cached from the
\* registration it replaced; no registration ever holds the object that its
\* predecessor had cached; and a call that finds the key registered and not on the
\* resolution stack invokes the factory of, or returns the instance cached in,
\* the registration it found, never the instance its predecessor had cached.
C17_LastWriteWins ==
    [][ /\ done'.kind \in {"register", "registerInstance"}
             => LET e == MapGet(services', done'.key) IN
                /\ MapHas(services', done'.key)
                /\ \A i \in 1..Len(services) : services[i].rid # e.rid
                /\ Len(services') = Len(services)
                                      + (IF MapHas(services, done'.key) THEN 0 ELSE 1)
                /\ \A i \in 1..Len(services) :
                      IF services[i].key = done'.key
                      THEN services'[i] = e
                      ELSE services'[i] = services[i]
                /\ done'.kind = "register"
                     => /\ e.factory = done'.fac /\ e.singleton = done'.sing
                        /\ e.instance = Undefined
                /\ done'.kind = "registerInstance"
                     => /\ e.singleton /\ e.instance = done'.v /\ e.captured = done'.v
        /\ \A i \in 1..Len(services') :
             services'[i].prior.id # 0 => services'[i].instance # services'[i].prior
        /\ (done'.st # "none" /\ done'.wasReg /\ ~done'.onStack)
             => /\ done'.rid = done'.reg.rid
                /\ done'.invoked => done'.fac = done'.reg.factory
                /\ (done'.st = "val" /\ ~done'.invoked) => done'.v = done'.reg.instance
                /\ (done'.st = "val" /\ done'.reg.prior.id # 0)
                     => done'.v # done'.reg.prior
      ]_vars

\* a resolve that ran the factory of a registration which replaced one with a
\* cached instance
C17_Witness ==
    /\ done.kind = "resolve" /\ done.top /\ done.st = "val" /\ done.invoked
    /\ done.reg.prior.id # 0 /\ done.reg.scope = "singleton"

\* the key the claim gives a token: a class is its declared name, a string or a
\* symbol is itself
DeclaredKey(token) ==
    IF token.kind = "symbol" THEN SymKey(token.name) ELSE StrKey(token.name)

Named(token) == token.name # ""

\* C18: key normalization.  Every registration is stored under the key of the
\* token it was made with and every call looks up the key of its token: for a
\* class its declared name, for a string or a symbol the token itself.  So has()
\* agrees for all tokens with the same key, a registration is found by every
\* such token and listed once under that key, and registering with another class
\* of the same name replaces the registration.
C18_KeyNormalization ==
    /\ \A i \in 1..Len(services) :
         /\ services[i].key = getTokenKey(services[i].tok)
         /\ Named(services[i].tok) => services[i].key = DeclaredKey(services[i].tok)
         /\ \A t \in KeyTokens :
              (Named(t) /\ DeclaredKey(t) = services[i].key)
              => (has(t) /\ getRegisteredTokens[i] = DeclaredKey(t))
         /\ \A j \in 1..Len(services) : services[j].key = services[i].key => j = i
    /\ \A t \in KeyTokens :
         (Named(t) /\ has(t)) => \E i \in 1..Len(services) : services[i].key = DeclaredKey(t)
    /\ (done.kind \in {"resolve", "resolveAsync"} /\ done.st # "none" /\ Named(done.tok))
         => /\ done.key = DeclaredKey(done.tok)
            /\ done.wasReg => (done.reg.key = done.key /\ done.rid \in {0, done.reg.rid})
    /\ (done.kind \in {"register", "registerInstance"} /\ Named(done.tok))
         => done.key = DeclaredKey(done.tok)

\* a resolve with the string "B" returns the instance of a registration made with
\* a class named B, which had replaced a registration with a cached instance
C18_Witness ==
    /\ done.kind = "resolve" /\ done.st = "val"
    /\ done.tok = StrTok("B")
    /\ done.reg.tok.kind = "class"
    /\ done.reg.prior.id # 0
    /\ Len(services) = 1

\* C19: synchronous and asynchronous resolution share one stack and one cache.
\* A call of the caller on a key that lies on a cycle of factories resolving one
\* another, through resolve or resolveAsync, ends with CircularDependencyError;
\* and a call on a singleton that the caller's previous call on the key, made
\* through the other method, resolved to a value returns that value without
\* invoking the factory.
C19_SharedStackAndCache ==
    (done.kind \in {"resolve", "resolveAsync"} /\ done.top /\ done.st # "none")
    => /\ done.mixed # {} => (done.st = "err" /\ done.e = "CircularDependencyError")
       /\ (/\ done.st = "val" /\ done.sing
           /\ done.prev.st = "val"
           /\ done.prev.kind \in {"resolve", "resolveAsync"} \ {done.kind}
           /\ done.prev.rid = done.rid)
          => (~done.invoked /\ done.v = done.prev.v)

\* the kind a caller tells an error to be, by its class and, for the base class,
\* by its message
ErrorKind(out) ==
    CASE out.e = "ServiceNotFoundError"    -> "ServiceNotFound"
      [] out.e = "CircularDependencyError" -> "CircularDependency"
      [] out.e = "DIContainerError" /\ out.msg = AsyncInSyncMessage -> "AsyncInSyncContext"
      [] OTHER                             -> "other"

ThreeKinds == {"ServiceNotFound", "CircularDependency", "AsyncInSyncContext"}

Failed == done.kind \in {"resolve", "resolveAsync"} /\ done.st = "err"

\* the three kinds are told apart by class (the first two) or by class and
\* message (the third), and every one is an instance of DIContainerError
Distinguishable ==
    \A k \in Keys :
      /\ ErrorKind(ServiceNotFoundError(k)) = "ServiceNotFound"
      /\ ErrorKind(CircularDependencyError(k)) = "CircularDependency"
      /\ ErrorKind(AsyncInSyncContextError(k)) = "AsyncInSyncContext"
      /\ \A out \in {ServiceNotFoundError(k), CircularDependencyError(k),
                      AsyncInSyncContextError(k)} :
           /\ InstanceOf(out.e, "DIContainerError")
           /\ InstanceOf(out.e, "Error")
           /\ out.ekey = k
           /\ InstanceOf(out.e, "ServiceNotFoundError") <=> ErrorKind(out) = "ServiceNotFound"
           /\ InstanceOf(out.e, "CircularDependencyError")
                <=> ErrorKind(out) = "CircularDependency"

\* C20 as claimed: every failed resolution reports one of the three kinds, an
\* instance of the base class that carries a key.
C20_ThreeKindsOnly ==
    Failed => /\ ErrorKind(done) \in ThreeKinds
              /\ InstanceOf(done.e, "DIContainerError")
              /\ done.ekey # NoKey

\* C20: error taxonomy.  A resolution that fails either reports an error of the
\* container, which is of exactly one of the three kinds, an instance of the
\* base class, and carries the key it was raised for (the key of the call, or of
\* the nested call it came from); or it reports the error that its factory threw,
\* unchanged.  The three kinds are told apart and belong to one family.
C20_ErrorTaxonomy ==
    /\ Distinguishable
    /\ Failed =>
         /\ InstanceOf(done.e, "DIContainerError")
              => (ErrorKind(done) \in ThreeKinds /\ done.ekey # NoKey)
         /\ ~done.invoked
              => /\ done.ekey = done.key
                 /\ ErrorKind(done) = IF done.onStack THEN "CircularDependency"
                                      ELSE "ServiceNotFound"
                 /\ ~done.onStack => ~done.wasReg
         /\ (done.invoked /\ done.kind = "resolve" /\ IsPromise(FactoryDef(done.fac)))
              => (ErrorKind(done) = "AsyncInSyncContext" /\ done.ekey = done.key)
         /\ (done.invoked /\ ~(done.kind = "resolve" /\ IsPromise(FactoryDef(done.fac))))
              => /\ done.fres.st = "err"
                 /\ done.e = done.fres.e /\ done.msg = done.fres.msg
                 /\ done.ekey = done.fres.ekey
         /\ ~InstanceOf(done.e, "DIContainerError")
              => (done.invoked /\ done.e = "Error" /\ done.ekey = NoKey)

\* a resolve of the caller fails with the ServiceNotFoundError of a dependency:
\* the error names the dependency's key, not the key asked for
C20_Witness ==
    /\ Failed /\ done.top /\ done.invoked
    /\ ErrorKind(done) = "ServiceNotFound"
    /\ done.ekey # done.key
    /\ InstanceOf(done.e, "DIContainerError")

\* the table is emptied by this step: clear(), the end of dispose(), or a
\* factory that calls clear()
Emptying ==
    \/ done'.kind \in {"clear", "dispose"}
    \/ cur # <<>> /\ Top(cur).pc = "factory" /\ FactoryDef(Top(cur).fac).pre = "clear"

NoDuplicates(seq) == \A i, j \in 1..Len(seq) : seq[i] = seq[j] => i = j

\* C21: key enumeration.  getRegisteredTokens() lists every registered key once,
\* in the order of first registration since the table was last emptied:
\* registering a new key appends it, registering a listed key changes nothing,
\* emptying the table empties the list, and no other step changes the list.
C21_KeyEnumeration ==
    [][/\ NoDuplicates(getRegisteredTokens')
       /\ \A t \in Tokens : has(t)' <=> getTokenKey(t) \in Elems(getRegisteredTokens')
       /\ IF done'.kind \in {"register", "registerInstance"}
          THEN getRegisteredTokens' =
                 IF done'.key \in Elems(getRegisteredTokens)
                 THEN getRegisteredTokens
                 ELSE Append(getRegisteredTokens, done'.key)
          ELSE IF Emptying
          THEN getRegisteredTokens' = <<>>
          ELSE getRegisteredTokens' = getRegisteredTokens]_vars

\* B then A were registered and B, which had a cached instance, was registered
\* again: B is still listed first
C21_Witness ==
    /\ done.kind \in {"register", "registerInstance"}
    /\ done.key = KeyB
    /\ getRegisteredTokens = <<KeyB, KeyA>>
    /\ services[1].prior.id # 0

\* C22: has() is a pure existence check.  A key is present from its
\* registration until the table is next emptied (clear(), the end of dispose())
\* and at no other time; a has() call returns that and changes neither the
\* registrations with their cached instances and factories' state, the
\* resolution stack, the running or suspended calls, nor the teardown log.
C22_HasPure ==
    [][/\ \A t \in Tokens :
            has(t)' <=> IF done'.kind \in {"register", "registerInstance"}
                            /\ done'.key = getTokenKey(t)
                        THEN TRUE
                        ELSE IF Emptying THEN FALSE ELSE has(t)
       /\ done'.kind = "has"
            => /\ done'.v = Bool(has(done'.tok))
               /\ done'.v = Bool(MapHas(services', done'.key))
               /\ UNCHANGED <<services, resolutionStack, cur, suspended, teardowns>>
               /\ UNCHANGED <<prevRet, serviceMetrics>>]_vars

\* has() answers false for a key whose registration, with a cached instance,
\* was removed by dispose(), and true for a key registered after that
C22_Witness ==
    /\ done.kind = "has"
    /\ done.v = Bool(TRUE)
    /\ teardowns # <<>>
    /\ \E k \in Keys : /\ prevRet[k].cleared /\ prevRet[k].dropped.id # 0
                       /\ ~MapHas(services, k)

\* C23: performance monitoring is observational.  Two containers that differ
\* only in enablePerformanceMonitoring and are given the same operations go
\* through the same states in everything but the counters: given what the first
\* was given, the second comes at every step to the state the first came to,
\* with the same registrations, cached instances, factory invocations, returned
\* values and errors.
C23_MonitoringObservational ==
    replay > 0 =>
      \/ Outcome = firstRun[replay]
      \/ replay < Len(firstRun) /\ Outcome = firstRun[replay + 1]

\* the second container, built without monitoring, has followed a run of the
\* first in which a resolve was counted and a cached singleton was returned
C23_Witness ==
    /\ replay = Len(firstRun)
    /\ replay > 1
    /\ ~performanceTracking
    /\ done.kind = "resolve" /\ done.st = "val" /\ ~done.invoked
    /\ prevRet[done.key].st = "val"

\* the keys of the frames that have pushed their key and not yet left, over the
\* running chain and the suspended ones
InProgress == {f.key : f \in {g \in AllFrames : g.kind # "dispose" /\ g.pc \in Building}}

\* C24: the cycle check precedes every other lookup.  A resolve or resolveAsync
\* of a key that is on the resolution stack fails with CircularDependencyError
\* naming the key, whether or not the key is registered at that moment and
\* whether or not its registration holds a cached instance; a call that ends
\* with its own ServiceNotFoundError, with a cache hit, or by invoking the
\* factory found its key off the stack.
C24_CycleCheckFirst ==
    (done.kind \in {"resolve", "resolveAsync"} /\ done.st # "none")
    => /\ done.onStack
            => /\ done.st = "err" /\ done.e = "CircularDependencyError"
               /\ done.ekey = done.key
               /\ ~done.invoked /\ ~done.pushed
       /\ (done.e = "ServiceNotFoundError" /\ ~done.invoked) => ~done.onStack
       /\ (done.st = "val" \/ done.invoked) => ~done.onStack

\* a factory registered an instance for its own key and then resolved the key:
\* the nested call fails with CircularDependencyError although the registration
\* it would find holds a cached instance
C24_Witness ==
    /\ done.kind = "resolve" /\ done.onStack /\ done.nested
    /\ done.e = "CircularDependencyError"
    /\ done.wasReg /\ CacheHit(done.reg)
    /\ done.reg.scope = "instance"

\* C25: a cache hit short-circuits.  A resolve or resolveAsync of a singleton
\* whose registration has had its instance written, and whose key is not on the
\* resolution stack, returns that instance in the step that enters the call,
\* without invoking the factory and with the registrations and the resolution
\* stack unchanged.
C25_CacheHitShortCircuits ==
    [][(/\ done'.kind \in {"resolve", "resolveAsync"} /\ done'.st # "none"
        /\ done'.wasReg /\ ~done'.onStack
        /\ done'.reg.singleton /\ done'.reg.stores > 0)
       => /\ done'.st = "val" /\ done'.v = done'.reg.instance
          /\ ~done'.invoked /\ ~done'.pushed
          /\ services' = services
          /\ resolutionStack' = resolutionStack]_vars

\* ---- C26 ----------------------------------------------------------------

\* the step ends a resolve or resolveAsync call whose factory ran and failed:
\* it threw, it rejected, or a nested resolve it performed failed
FactoryFailed ==
    /\ done'.kind \in {"resolve", "resolveAsync"}
    /\ done' # done
    /\ done'.st # "none"
    /\ done'.invoked
    /\ done'.fres.st = "err"

\* the call that just ended follows, on the same key and the same registration,
\* a top-level call that failed after invoking the factory
AfterFailure ==
    /\ done'.kind \in {"resolve", "resolveAsync"}
    /\ done' # done
    /\ done'.st # "none"
    /\ done'.top
    /\ done'.prev.st = "err"
    /\ done'.prev.invoked

\* no frame that has invoked its factory is back before the invocation
InvokedOnce == \A f \in AllFrames : f.invoked => f.pc \notin {"enter", "factory"}

\* C26 as claimed: a failure inside a factory leaves the enclosing resolve or
\* resolveAsync unchanged, the factory runs once per call, nothing is cached
\* for the key, the key stays registered, and the next resolve of the key
\* invokes the factory again.
C26_FailurePropagates ==
    [][ /\ InvokedOnce'
        /\ FactoryFailed =>
             /\ done'.st = "err"
             /\ <<done'.e, done'.msg, done'.ekey>>
                  = <<done'.fres.e, done'.fres.msg, done'.fres.ekey>>
             /\ MapHas(services', done'.key)
             /\ MapGet(services', done'.key).instance = Undefined
                  \/ MapGet(services', done'.key).rid # done'.rid
        /\ AfterFailure => done'.invoked ]_vars

\* C26 as the code has it: the failure leaves resolveAsync unchanged, and
\* resolve unless the factory returned a promise, where resolve reports
\* AsyncInSyncContext for the key whatever the promise settles to; the failing
\* step writes nothing to the registry, so the registration is as the call
\* found it unless the factory itself emptied the registry; the next resolve of
\* a key that still has that registration invokes the factory again.
C26_FactoryFailure ==
    [][ /\ InvokedOnce'
        /\ FactoryFailed =>
             /\ done'.st = "err"
             /\ IF done'.kind = "resolve" /\ IsPromise(FactoryDef(done'.fac))
                THEN [st |-> done'.st, v |-> done'.v, e |-> done'.e, msg |-> done'.msg,
                      ekey |-> done'.ekey] = AsyncInSyncContextError(done'.key)
                ELSE <<done'.e, done'.msg, done'.ekey>>
                       = <<done'.fres.e, done'.fres.msg, done'.fres.ekey>>
             /\ services' = services
             /\ MapHas(services', done'.key) \/ prevRet'[done'.key].cleared
             /\ \A i \in 1..Len(services') :
                  services'[i].rid = done'.rid =>
                    services'[i].instance = done'.reg.instance
        /\ AfterFailure /\ done'.wasReg /\ done'.prev.rid = done'.rid => done'.invoked ]_vars

\* a second resolve of a key whose factory resolves a missing dependency: both
\* calls invoked the factory and both failed with the dependency's error
C26_Witness ==
    /\ done.kind = "resolve"
    /\ done.top
    /\ done.invoked
    /\ done.st = "err"
    /\ done.e = "ServiceNotFoundError"
    /\ done.ekey # done.key
    /\ done.prev.st = "err"
    /\ done.prev.invoked
    /\ done.prev.e = "ServiceNotFoundError"
    /\ MapHas(services, done.key)

\* ---- C27 ----------------------------------------------------------------

\* the step ends, with a value, a nested resolve of a singleton whose factory
\* it invoked: the value is what the enclosing factory receives
NestedBuilt ==
    /\ done'.kind \in {"resolve", "resolveAsync"}
    /\ done' # done
    /\ done'.st = "val"
    /\ ~done'.top
    /\ done'.sing
    /\ done'.invoked

\* some registered key whose factory resolves key has been resolved with a
\* value by a call that invoked that factory
OuterSucceeded(key) ==
    \E i \in 1..Len(services) :
       /\ services[i].key # key
       /\ FactoryDef(services[i].factory).dep = key
       /\ prevRet[services[i].key].st = "val"
       /\ prevRet[services[i].key].invoked
       /\ prevRet[services[i].key].rid = services[i].rid

\* the step ends the first top-level resolve of a singleton registration that a
\* nested resolve has stored, after the enclosing resolve succeeded
LaterResolve ==
    /\ done'.kind \in {"resolve", "resolveAsync"}
    /\ done' # done
    /\ done'.st # "none"
    /\ done'.top
    /\ done'.wasReg
    /\ done'.reg.scope = "singleton"
    /\ done'.reg.stores > 0
    /\ done'.prev.st = "none"
    /\ OuterSucceeded(done'.key)

\* C27: a singleton dependency resolved inside a factory is cached with the
\* instance the factory received, and a later top-level resolve of it returns
\* that instance without invoking its factory again.
C27_NestedPopulatesCache ==
    [][ /\ NestedBuilt =>
             \A i \in 1..Len(services') :
                services'[i].rid = done'.rid =>
                   /\ CacheHit(services'[i])
                   /\ services'[i].instance = done'.v
        /\ LaterResolve =>
             /\ done'.st = "val"
             /\ done'.v = done'.reg.instance
             /\ ~done'.invoked ]_vars

\* ---- C28 ----------------------------------------------------------------

\* observation: the first key, following the registered factories' dependencies
\* from key, that is already in seen; NoKey when the chain ends before
RECURSIVE ReEntered(_, _, _)
ReEntered(key, seen, n) ==
    IF key = NoKey \/ n = 0 THEN NoKey
    ELSE IF key \in seen THEN key
    ELSE ReEntered(DepOf(key), seen \cup {key}, n - 1)

\* C28: a CircularDependencyError names the key whose resolution was
\* re-entered.  The call that raises it is the call on that key, which found
\* its own key on the resolution stack; a top-level call that fails with it
\* reports the first key, along the chain of dependencies from its own key,
\* that was already on the stack: A for A -> B -> A, B for A -> B -> C -> B.
C28_CircularNamesReEntered ==
    [][ /\ ( /\ done' # done
             /\ done'.kind \in {"resolve", "resolveAsync"}
             /\ done'.st = "err"
             /\ done'.e = "CircularDependencyError"
             /\ ~done'.invoked )
          => /\ done'.ekey = done'.key
             /\ done'.onStack
             /\ done'.key \in resolutionStack
             /\ done'.msg = "Circular dependency detected for token: "
        /\ ( /\ done' # done
             /\ done'.kind \in {"resolve", "resolveAsync"}
             /\ done'.top
             /\ done'.st # "none"
             /\ cur # <<>> )
          => LET entered == ReEntered(done'.key, resolutionStack \ {done'.key},
                                      Cardinality(Keys) + 1)
             IN IF done'.invoked /\ entered # NoKey
                THEN /\ done'.st = "err"
                     /\ done'.e = "CircularDependencyError"
                     /\ done'.ekey = entered
                ELSE done'.e = "CircularDependencyError" => ~done'.invoked ]_vars

\* resolve(A) with A -> B -> C -> B registered fails naming B
C28_Witness ==
    /\ done.kind = "resolve"
    /\ done.top
    /\ done.key = KeyA
    /\ done.e = "CircularDependencyError"
    /\ done.ekey = KeyB
    /\ DepOf(KeyA) = KeyB /\ DepOf(KeyB) = KeyC /\ DepOf(KeyC) = KeyB

\* ---- C29 ----------------------------------------------------------------

\* C29: the resolution stack holds exactly the keys of the resolve and
\* resolveAsync calls that have pushed their key (their factory invocation has
\* started) and have not yet returned or failed; with no such call in progress,
\* running or parked at an await, the stack is empty.
C29_StackIsInProgress ==
    /\ resolutionStack = InProgress
    /\ (\A f \in AllFrames : f.kind = "dispose") => resolutionStack = {}

\* a nested resolve has its factory's result in hand while the enclosing call
\* waits for it: both keys are on the stack
C29_Witness ==
    /\ Len(cur) = 2
    /\ Top(cur).pc = "returned"
    /\ cur[1].pc = "dep"
    /\ resolutionStack = {cur[1].key, cur[2].key}
    /\ cur[1].key # cur[2].key

\* ---- C30 ----------------------------------------------------------------

\* the step ends a resolve or resolveAsync call with a value
Resolved(key) ==
    /\ done' # done
    /\ done'.kind \in {"resolve", "resolveAsync"}
    /\ done'.st = "val"
    /\ done'.key = key

\* C30: with performance monitoring enabled a key's resolution count never
\* decreases except in a resetPerformanceStats call, which sets it to zero;
\* it grows by one with every resolution that returns a value, and clear(),
\* dispose() and a registration of the key leave it as it is, so that the
\* count reported for a key registered again is the one it had before.
C30_CountersAppendOnly ==
    [][ \A t \in Tokens :
          LET k == getTokenKey(t) IN
          /\ IF done'.kind = "resetPerformanceStats"
             THEN serviceMetrics'[k] = 0
             ELSE IF Resolved(k)
             THEN serviceMetrics'[k] = serviceMetrics[k] + 1
             ELSE serviceMetrics'[k] = serviceMetrics[k]
          /\ getServiceMetrics(t)' \in {<<>>, <<serviceMetrics'[k]>>}
          /\ has(t)' => getServiceMetrics(t)' # <<>> ]_vars

\* a key registered again, its registration not yet resolved, reports the
\* resolution counted before
C30_Witness ==
    /\ done.kind = "register"
    /\ prevRet[done.key].cleared = FALSE
    /\ getServiceMetrics(done.tok) = <<1>>
    /\ \A i \in 1..Len(services) : services[i].stores = 0

\* ---- C31 ----------------------------------------------------------------

\* the calls, running or parked at an await, that have pushed key and have not
\* ended: a chain and a position in it
BuildersOf(key) ==
    {<<c, i>> \in (suspended \cup {cur}) \X (1..(Cardinality(Keys) + 2)) :
        /\ i <= Len(c)
        /\ c[i].kind # "dispose"
        /\ c[i].key = key
        /\ c[i].pc \in Building}

\* C31: per key at most one factory invocation is in progress.  No two calls
\* are building the same key, and a call on a key that was on the stack when it
\* entered ends with CircularDependencyError, or with a cached instance,
\* without pushing the key or invoking a factory.
C31_OneInvocationPerKey ==
    /\ \A k \in Keys : Cardinality(BuildersOf(k)) <= 1
    /\ (done.kind \in {"resolve", "resolveAsync"} /\ done.st # "none" /\ done.onStack)
         => /\ ~done.invoked
            /\ ~done.pushed
            /\ \/ done.st = "err" /\ done.e = "CircularDependencyError"
               \/ done.st = "val" /\ CacheHit(done.reg) /\ done.v = done.reg.instance

\* a top-level call on a key that a resolveAsync call parked at its await is
\* building has been refused
C31_Witness ==
    /\ done.kind \in {"resolve", "resolveAsync"}
    /\ done.top
    /\ done.onStack
    /\ done.e = "CircularDependencyError"
    /\ \E c \in suspended : Top(c).kind = "resolveAsync" /\ Top(c).key = done.key
    /\ Cardinality(BuildersOf(done.key)) = 1

\* ---- C32 ----------------------------------------------------------------

\* the factory invocations of the running call that have not returned
Depth == Cardinality({i \in 1..Len(cur) : cur[i].pc \in Building})

\* C32: with fixed registrations whose factories only resolve other keys, the
\* depth of nested factory invocations never exceeds the number of registered
\* keys, a running call always has a next step, and every synchronous resolve
\* call ends, with a value or an error.
C32_Termination ==
    /\ [](Depth <= Len(services))
    /\ [](cur # <<>> => /\ Top(cur).kind = "resolve"
                        /\ Top(cur).pc \in {"enter", "factory", "returned"})
    /\ (cur # <<>>) ~> (cur = <<>> /\ done.kind = "resolve" /\ done.top
                          /\ done.st \in {"val", "err"})

\* a resolve that nested as deep as there are keys has returned: its chain of
\* three singletons is cached
C32_Witness ==
    /\ cur = <<>>
    /\ done.kind = "resolve" /\ done.top /\ done.st = "val" /\ done.invoked
    /\ Len(services) = Cardinality(Keys)
    /\ \A i \in 1..Len(services) : services[i].stores = 1
    /\ \E i \in 1..Len(services) : FactoryDef(services[i].factory).dep = NoKey
    /\ Cardinality({i \in 1..Len(services) : FactoryDef(services[i].factory).dep # NoKey}) = 2

\* ---- C33 ----------------------------------------------------------------

\* C33: a registration with transient lifetime never holds an instance, and
\* every teardown that dispose() invokes is that of the instance held by a
\* singleton registration, never of an instance a transient registration
\* produced.
C33_TransientNeverCached ==
    [][ /\ \A i \in 1..Len(services') :
             services'[i].scope = "transient" =>
                /\ ~services'[i].singleton
                /\ services'[i].instance = Undefined
                /\ services'[i].stores = 0
        /\ teardowns' # teardowns =>
             \E i \in 1..Len(services) :
                /\ services[i].scope # "transient"
                /\ HasTeardown(services[i].instance)
                /\ teardowns' = Append(teardowns, services[i].instance.id) ]_vars

\* dispose() has visited a transient registration whose last resolve returned
\* an instance with a dispose method, and has torn down nothing
C33_Witness ==
    /\ cur # <<>>
    /\ Top(cur).kind = "dispose"
    /\ Top(cur).disp.pos = Len(services)
    /\ Len(services) > 0
    /\ \A i \in 1..Len(services) :
          /\ services[i].scope = "transient"
          /\ prevRet[services[i].key].st = "val"
          /\ HasTeardown(prevRet[services[i].key].v)
    /\ teardowns = <<>>

\* ---- C34 ----------------------------------------------------------------

\* the dispose() calls parked at the await of a teardown
ParkedDisposals == {c \in suspended : Top(c).kind = "dispose"}

\* C34: overlapping dispose() calls invoke the teardown of each cached instance
\* at most once in total.  A teardown invoked while another dispose() call is
\* parked at an await is not one that has been invoked before.
C34_OverlappingDisposeOnce ==
    [][ (teardowns' # teardowns /\ ParkedDisposals # {})
          => \A i \in 1..Len(teardowns) : teardowns[i] # teardowns'[Len(teardowns')] ]_vars

\* ---- C35 ----------------------------------------------------------------

\* C35: when a dispose() call clears the registry at its end, every instance
\* cached in the registry at that moment that exposes a teardown has had it
\* invoked by this call, whatever was registered or resolved while the call
\* was parked at an await.
C35_DisposeTotal ==
    [][ (done' # done /\ done'.kind = "dispose")
          => \A i \in 1..Len(services) :
                Exposes(services[i].instance)
                  => services[i].instance \in Elems(done'.disp.torn) ]_vars

\* ---- C36 ----------------------------------------------------------------

\* the step is a registry operation of its own: one the caller issues, or one
\* the running factory issues on the container before it resolves
RegistryOperation ==
    \/ done'.kind \in {"register", "registerInstance", "clear", "dispose"}
    \/ cur # <<>> /\ Top(cur).pc = "factory" /\ FactoryDef(Top(cur).fac).pre # "none"

\* the step ends a resolve or resolveAsync call, nested or not, with an error
CallFails ==
    /\ done' # done
    /\ done'.kind \in {"resolve", "resolveAsync"}
    /\ done'.st = "err"

\* C36: a failed resolution rolls nothing back.  The step in which a call
\* fails leaves every registration as it is, so what nested calls have cached
\* stays cached; and the only change a step of a resolution makes to a
\* registration is to store the instance of a call that returns a value.
C36_NoRollback ==
    [][ /\ CallFails => services' = services
        /\ ~RegistryOperation =>
             /\ Len(services') = Len(services)
             /\ \A i \in 1..Len(services) :
                  \/ [services'[i] EXCEPT !.n = 0] = [services[i] EXCEPT !.n = 0]
                  \/ /\ done'.st = "val"
                     /\ services[i].rid = done'.rid
                     /\ services[i].singleton
                     /\ services'[i] = [services[i] EXCEPT !.instance = done'.v,
                                                           !.stores = @ + 1] ]_vars

\* a top-level call has failed after its factory resolved a singleton
\* dependency, which is cached although no top-level call resolved it
C36_Witness ==
    /\ done.kind \in {"resolve", "resolveAsync"}
    /\ done.top /\ done.st = "err" /\ done.invoked
    /\ FactoryDef(done.fac).dep \in Keys \ {done.key}
    /\ prevRet[FactoryDef(done.fac).dep].st = "none"
    /\ \E i \in 1..Len(services) :
          /\ services[i].key = FactoryDef(done.fac).dep
          /\ services[i].scope = "singleton"
          /\ services[i].stores = 1
          /\ services[i].instance # Undefined

\* ---- C37 ----------------------------------------------------------------

\* the set of registered keys
RegisteredKeys == Elems(getRegisteredTokens)

\* C37: resolution never changes the set of registered keys.  A key is added
\* only by a registration and keys are removed only by clear() or dispose();
\* a resolveAsync call that completes after the table was cleared leaves its
\* key unregistered and off the stack, and a resolve of a cleared key that is
\* not on the stack fails with ServiceNotFoundError for the key.
C37_ResolutionKeepsKeys ==
    [][ /\ RegisteredKeys' # RegisteredKeys =>
             \/ /\ done'.kind \in {"register", "registerInstance"}
                /\ RegisteredKeys' = RegisteredKeys \cup {done'.key}
             \/ /\ cur # <<>>
                /\ Top(cur).pc = "factory"
                /\ FactoryDef(Top(cur).fac).pre = "registerInstance"
                /\ RegisteredKeys' = RegisteredKeys \cup {FactoryDef(Top(cur).fac).dep}
             \/ /\ Emptying
                /\ RegisteredKeys' = {}
        /\ (done' # done /\ done'.kind \in {"resolve", "resolveAsync"})
             => /\ RegisteredKeys' = RegisteredKeys
                /\ \A t \in Tokens : has(t)' = has(t)
                /\ (done'.pushed /\ done'.key \notin RegisteredKeys)
                     => /\ done'.key \notin resolutionStack'
                        /\ prevRet'[done'.key].cleared
        /\ ( /\ done' # done
             /\ done'.kind \in {"resolve", "resolveAsync"}
             /\ done'.st # "none"
             /\ done'.prev.cleared
             /\ done'.key \notin resolutionStack )
           => /\ done'.st = "err"
              /\ done'.e = "ServiceNotFoundError"
              /\ done'.ekey = done'.key
              /\ ~done'.wasReg ]_vars

\* a resolveAsync call that was in flight when the table was emptied has
\* returned its instance: its key is not registered and not on the stack
C37_Witness ==
    /\ done.kind = "resolveAsync"
    /\ done.top
    /\ done.st = "val"
    /\ done.invoked
    /\ done.sing
    /\ prevRet[done.key].cleared
    /\ ~MapHas(services, done.key)
    /\ done.key \notin resolutionStack

\* ---- C38 ----------------------------------------------------------------

\* the step ends a resolve or resolveAsync call on key, nested or not
CallEnds(key) ==
    /\ done' # done
    /\ done'.kind \in {"resolve", "resolveAsync"}
    /\ done'.st # "none"
    /\ done'.key = key

\* C38: with performance monitoring enabled the count recorded for a key is
\* the number of resolve and resolveAsync calls on the key that returned a
\* value since the last resetPerformanceStats: it starts at zero, a call that
\* returns a value adds one whether it invoked the factory or returned the
\* cached instance, a call that fails adds nothing, a reset sets it to zero
\* and nothing else changes it.  With monitoring disabled no count is recorded.
C38_CountsSuccessfulCalls ==
    [][ \A k \in Keys :
          IF ~performanceTracking
          THEN serviceMetrics[k] = 0 /\ serviceMetrics'[k] = 0
          ELSE IF done'.kind = "resetPerformanceStats"
          THEN serviceMetrics'[k] = 0
          ELSE IF CallEnds(k) /\ done'.st = "val"
          THEN serviceMetrics'[k] = serviceMetrics[k] + 1
          ELSE IF CallEnds(k)
          THEN done'.st = "err" /\ serviceMetrics'[k] = serviceMetrics[k]
          ELSE serviceMetrics'[k] = serviceMetrics[k] ]_vars

\* two calls on B have returned a value, one nested in a resolve of A and one
\* that returned the cached instance: B counts two and A one
C38_Witness ==
    /\ performanceTracking
    /\ done.kind = "resolve" /\ done.top /\ done.st = "val" /\ ~done.invoked
    /\ done.key = KeyB
    /\ done.prev.st = "none"
    /\ serviceMetrics[KeyB] = 2
    /\ serviceMetrics[KeyA] = 1

====
